---- MODULE Spec2Model ----
(***************************************************************************)
(* A model of local_ufoProcessor.py: the glyph swap (swapGlyphNames) and   *)
(* the instance builder of DesignSpaceProcessor (collectMastersForGlyph,   *)
(* getGlyphMutator, makeInstance).                                         *)
(*                                                                         *)
(* Glyph names are sequences of tokens, so that string concatenation       *)
(* (oldName + swapNameExtension) is Append and the substring test          *)
(* (name.find(swapNameExtension) != -1) is "some token is the extension".  *)
(***************************************************************************)
EXTENDS Integers, Sequences, FiniteSets, TLC

VARIABLES
    font,       \* the font object swapGlyphNames works on
    orig,       \* the font as it was handed to the first call
    args,       \* <<oldName, newName>> of the calls made so far
    mode,       \* which part of the program this behaviour exercises
    doc,        \* the document: sources, rules, roundGeometry
    proc,       \* DesignSpaceProcessor: ufoVersion, fonts, glyphNames, _fontsLoaded,
                \* _glyphMutators, problems
    call,       \* the last call made on the processor, with what it returned
    disk        \* the instance paths: the UFO at each path, if any

swapVars == <<font, orig, args>>

procVars == <<doc, proc, call, disk>>

vars == <<font, orig, args, mode, doc, proc, call, disk>>

-----------------------------------------------------------------------------
(* Names *)

swapNameExtension == "_______________swap"

nA == <<"a">>
nB == <<"b">>
nC == <<"c">>
nAswap == <<"a", swapNameExtension>>

\* the glyph names a font of the model may hold or refer to
Names == {nA, nB, nC, nAswap}

\* g.name.find(swapNameExtension) != -1
HasExt(name) == \E i \in 1..Len(name) : name[i] = swapNameExtension

-----------------------------------------------------------------------------
(* Numbers: interpolated values are fractions <<numerator, denominator>>   *)
(* in lowest terms, denominator positive.                                  *)

RECURSIVE gcd(_, _)
gcd(a, b) == IF b = 0 THEN a ELSE gcd(b, a % b)

abs(n) == IF n < 0 THEN -n ELSE n

frac(n, d) ==
    LET sn == IF d < 0 THEN -n ELSE n
        sd == abs(d)
        g == gcd(abs(sn), sd)
    IN  <<sn \div g, sd \div g>>

whole(n) == <<n, 1>>

\* the value at t of the line through (lo, vlo) and (hi, vhi); lo # hi
onLine(lo, vlo, hi, vhi, t) ==
    frac(vlo[1] * vhi[2] * (hi - lo) + (t - lo) * (vhi[1] * vlo[2] - vlo[1] * vhi[2]),
         vlo[2] * vhi[2] * (hi - lo))

\* rounding to the integer grid (MathGlyph.round): the nearest integer
roundNumber(q) == whole((2 * q[1] + q[2]) \div (2 * q[2]))

-----------------------------------------------------------------------------
(* Fonts: glyphs (name -> glyph), kerning ((first, second) -> value),      *)
(* groups (group name -> member list).                                     *)

\* a glyph as font.newGlyph makes it
EmptyGlyph ==
    [contours |-> <<>>, components |-> <<>>, width |-> whole(0), unicodes |-> <<>>]

newGlyph(glyphs, name) ==
    [n \in DOMAIN glyphs \cup {name} |-> IF n = name THEN EmptyGlyph ELSE glyphs[n]]

\* glyph.clear(): contours and components go, width and unicodes stay
clear(g) == [g EXCEPT !.contours = <<>>, !.components = <<>>]

\* a copy that takes the unicodes of the drawn glyph along
drawPoints_withUnicodes(src, dst) ==
    [dst EXCEPT !.contours = @ \o src.contours, !.components = @ \o src.components,
                !.unicodes = src.unicodes]

\* src.drawPoints(dst.getPointPen()): contours and components are appended
drawPoints(src, dst) ==
    [dst EXCEPT !.contours = @ \o src.contours, !.components = @ \o src.components]

-----------------------------------------------------------------------------
(* swapGlyphNames *)

\* lines 116-124: park the old glyph under swapName
parkOldGlyph(glyphs, oldName, swapName) ==
    LET g1 == IF swapName \notin DOMAIN glyphs THEN newGlyph(glyphs, swapName) ELSE glyphs
        g2 == [g1 EXCEPT ![swapName] = clear(@)]
        g3 == [g2 EXCEPT ![swapName] = drawPoints(g2[oldName], @)]
    IN  [g3 EXCEPT ![swapName].width = g3[oldName].width]

\* lines 127-135: new -> old, parked -> new
swapOutlines(glyphs, oldName, newName, swapName) ==
    LET g1 == [glyphs EXCEPT ![oldName] = clear(@)]
        g2 == [g1 EXCEPT ![oldName] = drawPoints(g1[newName], @)]
        g3 == [g2 EXCEPT ![oldName].width = g2[newName].width]
        g4 == [g3 EXCEPT ![newName] = clear(@)]
        g5 == [g4 EXCEPT ![newName] = drawPoints(g4[swapName], @)]
    IN  [g5 EXCEPT ![newName].width = g5[swapName].width]

\* one "for g in font: for c in g.components" pass
rebase(glyphs, from, to) ==
    [n \in DOMAIN glyphs |->
        [glyphs[n] EXCEPT !.components =
            [i \in DOMAIN @ |-> IF @[i] = from THEN to ELSE @[i]]]]

\* lines 137-151: old -> parked, new -> old, parked -> new
remapComponents(glyphs, oldName, newName, swapName) ==
    rebase(rebase(rebase(glyphs, oldName, swapName), newName, oldName), swapName, newName)

\* the if/elif chain with the elif written as a second if
swapKerningName_secondIf(name, oldName, newName) ==
    LET n1 == IF name = oldName THEN newName ELSE name
    IN  IF n1 = newName THEN oldName ELSE n1

\* lines 159-166, for one name of a pair
swapKerningName(name, oldName, newName) ==
    IF name = oldName THEN newName
    ELSE IF name = newName THEN oldName
    ELSE name

\* lines 156-169: newKerning, then clear and update
swapKerning(kerning, oldName, newName) ==
    LET key(p) == <<swapKerningName(p[1], oldName, newName),
                    swapKerningName(p[2], oldName, newName)>>
        keys == {key(p) : p \in DOMAIN kerning}
    IN  [k \in keys |-> kerning[CHOOSE p \in DOMAIN kerning : key(p) = k]]

\* lines 171-180
swapGroups(groups, oldName, newName) ==
    [groupName \in DOMAIN groups |->
        [i \in DOMAIN groups[groupName] |->
            IF groups[groupName][i] = oldName THEN newName
            ELSE IF groups[groupName][i] = newName THEN oldName
            ELSE groups[groupName][i]]]

\* lines 182-187 left out: no glyph is removed
removeSwapGlyphs_none(glyphs) == glyphs

\* lines 182-187
removeSwapGlyphs(glyphs) ==
    [n \in {m \in DOMAIN glyphs : ~HasExt(m)} |-> glyphs[n]]

\* the parking glyph is made before the two names are looked up
swapGlyphNames_parksFirst(f, oldName, newName) ==
    LET swapName == Append(oldName, swapNameExtension)
    IN  IF oldName \notin DOMAIN f.glyphs \/ newName \notin DOMAIN f.glyphs
        THEN [f EXCEPT !.glyphs = newGlyph(f.glyphs, swapName)]
        ELSE [f EXCEPT !.glyphs = removeSwapGlyphs(
                 remapComponents(
                     swapOutlines(parkOldGlyph(f.glyphs, oldName, swapName),
                                  oldName, newName, swapName),
                     oldName, newName, swapName)),
               !.kerning = swapKerning(f.kerning, oldName, newName),
               !.groups = swapGroups(f.groups, oldName, newName)]

\* lines 113-187
swapGlyphNames(f, oldName, newName) ==
    LET swapName == Append(oldName, swapNameExtension)
    IN  IF oldName \notin DOMAIN f.glyphs \/ newName \notin DOMAIN f.glyphs
        THEN f
        ELSE [glyphs |-> removeSwapGlyphs(
                 remapComponents(
                     swapOutlines(parkOldGlyph(f.glyphs, oldName, swapName),
                                  oldName, newName, swapName),
                     oldName, newName, swapName)),
              kerning |-> swapKerning(f.kerning, oldName, newName),
              groups |-> swapGroups(f.groups, oldName, newName)]

-----------------------------------------------------------------------------
(* The fonts swapGlyphNames is tried on (after addGlyphs and makeSwapFonts *)
(* of the self test: every glyph has its own contour, width and unicode,   *)
(* some glyphs hold components, the font holds kerning and groups).        *)

\* most components a font of the model holds
MaxComps == 2
\* most calls of swapGlyphNames on one font
MaxCalls == 2

widthOf(name) ==
    CASE name = nA -> 100 [] name = nB -> 800 [] name = nC -> 300 [] OTHER -> 700

unicodeOf(name) ==
    CASE name = nA -> 200 [] name = nB -> 201 [] name = nC -> 202 [] OTHER -> 203

\* addGlyphs: a glyph with one contour of its own and the given components
authoredGlyph(name, comps) ==
    [contours |-> <<name>>, components |-> comps,
     width |-> whole(widthOf(name)), unicodes |-> <<unicodeOf(name)>>]

ComponentLists ==
    {<<>>} \cup {<<n>> : n \in Names} \cup {<<nA, nB>>, <<nB, nB>>, <<nC, nA, nB>>}

componentCount(comps) ==
    Cardinality(UNION {{<<n, i>> : i \in DOMAIN comps[n]} : n \in DOMAIN comps})

GlyphTables ==
    UNION {{[n \in S |-> authoredGlyph(n, comps[n])] :
                comps \in {c \in [S -> ComponentLists] : componentCount(c) <= MaxComps}} :
           S \in SUBSET Names}

nG == <<"public.kern1.g">>
nH == <<"public.kern2.h">>

KerningTables ==
    { <<>>,
      (<<nA, nA>> :> -10) @@ (<<nB, nB>> :> 10),
      (<<nA, nB>> :> 5) @@ (<<nB, nA>> :> 7) @@ (<<nC, nA>> :> 3),
      (<<nG, nB>> :> 1) @@ (<<nB, nC>> :> 2) @@ (<<nC, nC>> :> 4) }

GroupTables ==
    { <<>>,
      (nG :> <<nA, nB, nC>>),
      (nG :> <<nB, nA, nA>>) @@ (nH :> <<nC>>) }

SwapFonts ==
    {[glyphs |-> g, kerning |-> k, groups |-> m] :
        g \in GlyphTables, k \in KerningTables, m \in GroupTables}

InitSwap ==
    /\ mode = "swap"
    /\ font \in SwapFonts
    /\ orig = font
    /\ args = <<>>
    /\ doc = <<>> /\ proc = <<>> /\ call = <<>> /\ disk = <<>>

\* swapGlyphNames(font, oldName, newName); a second call repeats the first
Swap(oldName, newName) ==
    /\ mode = "swap"
    /\ Len(args) < MaxCalls
    /\ args # <<>> => args[1] = <<oldName, newName>>
    /\ font' = swapGlyphNames(font, oldName, newName)
    /\ args' = Append(args, <<oldName, newName>>)
    /\ UNCHANGED <<orig, mode, procVars>>

NextSwap == \E oldName \in Names, newName \in Names : Swap(oldName, newName)

SpecSwap == InitSwap /\ [][NextSwap]_vars

-----------------------------------------------------------------------------
(* Properties of swapGlyphNames *)

\* the names of the first call
calledOld == args[1][1]
calledNew == args[1][2]

\* a call was made with both names in the font
SwappedOnce ==
    /\ mode = "swap" /\ Len(args) = 1
    /\ calledOld \in DOMAIN orig.glyphs /\ calledNew \in DOMAIN orig.glyphs

SwappedTwice ==
    /\ mode = "swap" /\ Len(args) = 2
    /\ calledOld \in DOMAIN orig.glyphs /\ calledNew \in DOMAIN orig.glyphs

\* the exchange of two names
exchange(name, a, b) == IF name = a THEN b ELSE IF name = b THEN a ELSE name

exchangeAll(names, a, b) == [i \in DOMAIN names |-> exchange(names[i], a, b)]

outline(g) == [contours |-> g.contours, components |-> g.components, width |-> g.width]

outlines(f) == [n \in DOMAIN f.glyphs |-> outline(f.glyphs[n])]

\* no glyph name and no component of the font holds the swap extension
ExtensionFree(f) ==
    \A n \in DOMAIN f.glyphs :
        /\ ~HasExt(n)
        /\ \A i \in DOMAIN f.glyphs[n].components : ~HasExt(f.glyphs[n].components[i])

\* C1: swapping the same two glyphs twice restores the outlines, widths,
\* kerning and groups of the whole font.
C1_SwapTwiceRestores ==
    SwappedTwice =>
        /\ outlines(font) = outlines(orig)
        /\ font.kerning = orig.kerning
        /\ font.groups = orig.groups

\* C1 on the fonts that hold no name with the swap extension
SwapTwiceRestoresExtensionFree ==
    (SwappedTwice /\ ExtensionFree(orig)) =>
        /\ outlines(font) = outlines(orig)
        /\ font.kerning = orig.kerning
        /\ font.groups = orig.groups

C3_ComponentsRemapped ==
    SwappedOnce =>
        LET a == calledOld
            b == calledNew
            swapName == Append(a, swapNameExtension)
        IN  /\ \A n \in DOMAIN orig.glyphs :
                  /\ exchange(n, a, b) \in DOMAIN font.glyphs
                  /\ font.glyphs[exchange(n, a, b)].components
                        = exchangeAll(orig.glyphs[n].components, a, b)
            /\ \A n \in DOMAIN font.glyphs : \A i \in DOMAIN font.glyphs[n].components :
                  LET base == font.glyphs[n].components[i]
                  IN  /\ base # swapName
                      /\ exchange(base, a, b) \in DOMAIN orig.glyphs => base \in DOMAIN font.glyphs

\* C3 on the fonts that hold no name with the swap extension
ComponentsRemappedExtensionFree ==
    (SwappedOnce /\ ExtensionFree(orig)) =>
        LET a == calledOld
            b == calledNew
            swapName == Append(a, swapNameExtension)
        IN  /\ \A n \in DOMAIN orig.glyphs :
                  /\ exchange(n, a, b) \in DOMAIN font.glyphs
                  /\ font.glyphs[exchange(n, a, b)].components
                        = exchangeAll(orig.glyphs[n].components, a, b)
            /\ \A n \in DOMAIN font.glyphs : \A i \in DOMAIN font.glyphs[n].components :
                  LET base == font.glyphs[n].components[i]
                  IN  /\ base # swapName
                      /\ exchange(base, a, b) \in DOMAIN orig.glyphs => base \in DOMAIN font.glyphs

\* C4: after a swap the kerning is the original with A and B exchanged in both
\* names of every pair, values kept, no pair lost or merged; every group's
\* member list has A and B exchanged in place.
C4_KerningAndGroupsExchanged ==
    SwappedOnce =>
        LET a == calledOld
            b == calledNew
            x(p) == <<exchange(p[1], a, b), exchange(p[2], a, b)>>
        IN  /\ DOMAIN font.kerning = {x(p) : p \in DOMAIN orig.kerning}
            /\ Cardinality(DOMAIN font.kerning) = Cardinality(DOMAIN orig.kerning)
            /\ \A p \in DOMAIN orig.kerning : font.kerning[x(p)] = orig.kerning[p]
            /\ DOMAIN font.groups = DOMAIN orig.groups
            /\ \A g \in DOMAIN orig.groups :
                  font.groups[g] = exchangeAll(orig.groups[g], a, b)

C4_Witness ==
    /\ SwappedOnce /\ calledOld # calledNew
    /\ <<calledOld, calledOld>> \in DOMAIN orig.kerning
    /\ <<calledNew, calledNew>> \in DOMAIN orig.kerning
    /\ font.kerning[<<calledOld, calledOld>>] = orig.kerning[<<calledNew, calledNew>>]
    /\ font.kerning # orig.kerning
    /\ \E g \in DOMAIN orig.groups : font.groups[g] # orig.groups[g]

\* C5: after a swap the glyph named A has the outline and width B had, the
\* glyph named B those A had (components as remapped), and the outline and
\* width of every other glyph are unchanged.
C5_OutlinesExchanged ==
    SwappedOnce =>
        LET a == calledOld
            b == calledNew
            moved(g) == [outline(g) EXCEPT !.components = exchangeAll(@, a, b)]
        IN  /\ DOMAIN font.glyphs = DOMAIN orig.glyphs
            /\ outline(font.glyphs[a]) = moved(orig.glyphs[b])
            /\ outline(font.glyphs[b]) = moved(orig.glyphs[a])
            /\ \A n \in DOMAIN orig.glyphs \ {a, b} :
                  outline(font.glyphs[n]) = moved(orig.glyphs[n])

\* C5 on the fonts that hold no name with the swap extension
OutlinesExchangedExtensionFree ==
    (SwappedOnce /\ ExtensionFree(orig)) =>
        LET a == calledOld
            b == calledNew
            moved(g) == [outline(g) EXCEPT !.components = exchangeAll(@, a, b)]
        IN  /\ DOMAIN font.glyphs = DOMAIN orig.glyphs
            /\ outline(font.glyphs[a]) = moved(orig.glyphs[b])
            /\ outline(font.glyphs[b]) = moved(orig.glyphs[a])
            /\ \A n \in DOMAIN orig.glyphs \ {a, b} :
                  outline(font.glyphs[n]) = moved(orig.glyphs[n])

\* C6: a call with a name the font does not hold changes nothing: the glyph
\* set (no parking glyph), outlines, kerning and groups are as before.
C6_AbsentNameIsNoOp ==
    (mode = "swap" /\ Len(args) >= 1
        /\ (calledOld \notin DOMAIN orig.glyphs \/ calledNew \notin DOMAIN orig.glyphs))
    => font = orig

C6_Witness ==
    /\ mode = "swap" /\ Len(args) = 1
    /\ calledOld \in DOMAIN orig.glyphs /\ calledNew \notin DOMAIN orig.glyphs
    /\ Append(calledOld, swapNameExtension) \notin DOMAIN font.glyphs
    /\ orig.kerning # <<>> /\ orig.groups # <<>>
    /\ font = orig

-----------------------------------------------------------------------------
(* Master fonts. A font holds layers in layerOrder; each layer maps glyph  *)
(* names to glyphs; a glyph's lib may hold a brace location: <<l>>, or <<>>.*)
(* The design space has one axis.                                          *)

\* the axis default (AxisDescriptor.default); defaultLoc is this location
axisDefault == 0

\* addGlyphs(font, s): a and b are drawn, c is a component of a
masterGlyph(name, size, loc) ==
    [contours |-> IF name = nC THEN <<>>
                  ELSE <<[of |-> name, x |-> whole(IF name = nA THEN size ELSE 2 * size)]>>,
     components |-> IF name = nC THEN <<nA>> ELSE <<>>,
     width |-> whole(IF name = nB THEN size + 300 ELSE size),
     unicodes |-> <<unicodeOf(name)>>,
     loc |-> loc]

foreground(names, size) == [n \in names |-> masterGlyph(n, size, <<>>)]

plainFont(names, size) ==
    [layerOrder |-> <<"foreground">>,
     layers |-> ("foreground" :> foreground(names, size))]

\* a master whose glyph a has a brace layer at 500, after a background layer
braceFontLast ==
    [layerOrder |-> <<"foreground", "background", "#brace 500">>,
     layers |-> ("foreground" :> foreground({nA, nB, nC}, 100))
             @@ ("background" :> (nB :> masterGlyph(nB, 100, <<>>)))
             @@ ("#brace 500" :> (nA :> masterGlyph(nA, 200, <<500>>)))]

\* the same with the brace layer before the background layer
braceFontFirst ==
    [layerOrder |-> <<"foreground", "#brace 500", "background">>,
     layers |-> ("foreground" :> foreground({nA, nB, nC}, 100))
             @@ ("#brace 500" :> (nA :> masterGlyph(nA, 200, <<500>>)))
             @@ ("background" :> (nB :> masterGlyph(nB, 100, <<>>)))]

\* the same as plainFont(names, size) but for glyph b, which has no contour
shortFont(names, size) ==
    [layerOrder |-> <<"foreground">>,
     layers |-> ("foreground" :>
                    [n \in names |-> IF n = nB
                                     THEN [masterGlyph(n, size, <<>>) EXCEPT !.contours = <<>>]
                                     ELSE masterGlyph(n, size, <<>>)])]

\* what self.fonts holds for a source whose path does not exist (None)
NoFont == [none |-> TRUE]

isNone(f) == DOMAIN f = {"none"}

\* the glyphs of the font's default layer: font[glyphName], glyphName in font
defaultLayer(f) == f.layers["foreground"]

source(name, location, f, muted) ==
    [name |-> name, location |-> location, font |-> f, mutedGlyphNames |-> muted,
     copyInfo |-> FALSE, copyLib |-> FALSE, copyFeatures |-> FALSE]

light == source("light", 0, plainFont({nA, nB, nC}, 100), {})
lightMuted == source("light", 0, plainFont({nA, nB, nC}, 100), {nA})
lightBraceLast == source("light", 0, braceFontLast, {})
lightBraceFirst == source("light", 0, braceFontFirst, {})
bold == source("bold", 1000, plainFont({nA, nB, nC}, 500), {})
boldMuted == source("bold", 1000, plainFont({nA, nB, nC}, 500), {nA})
boldNoB == source("bold", 1000, plainFont({nA, nC}, 500), {})
medium == source("medium", 500, plainFont({nA, nB, nC}, 400), {})
black == source("black", 1000, plainFont({nA, nB, nC}, 900), {})
lightTwin == source("lightTwin", 0, plainFont({nA, nB, nC}, 140), {})
lightNoC == source("light", 0, plainFont({nA, nB}, 100), {})
boldShortB == source("bold", 1000, shortFont({nA, nB, nC}, 500), {})
boldMissing == source("bold", 1000, NoFont, {})

\* the source lists of the documents; each has a source at the default location
SourceLists ==
    { <<light>>,
      <<light, bold>>,
      <<bold, light>>,
      <<light, medium, bold>>,
      <<light, boldMuted>>,
      <<lightMuted, bold>>,
      <<light, boldNoB>>,
      <<lightBraceLast, bold>>,
      <<lightBraceFirst, boldMuted>>,
      <<bold, lightBraceLast>>,
      <<light, bold, black>>,
      <<light, lightTwin, bold>>,
      <<lightNoC, bold>>,
      <<light, boldShortB>>,
      <<light, boldMissing>> }

-----------------------------------------------------------------------------
(* DesignSpaceProcessor: collecting the masters of a glyph *)

Raised == [raised |-> TRUE]
Returned(v) == [raised |-> FALSE, value |-> v]

\* MathGlyph(glyph): the interpolatable part of a glyph
mathGlyph(g) ==
    [contours |-> g.contours, components |-> g.components,
     width |-> g.width, unicodes |-> g.unicodes]

\* self.default: the source at the default location (the first, if several)
defaultSource(sources) ==
    sources[CHOOSE i \in DOMAIN sources :
                /\ sources[i].location = axisDefault
                /\ \A j \in DOMAIN sources : sources[j].location = axisDefault => i <= j]

\* lines 388-396: the font of the first source at the default location
getNeutralFont(sources, fonts) ==
    LET at == {i \in DOMAIN sources :
                  sources[i].location = axisDefault /\ sources[i].name \in DOMAIN fonts}
    IN  IF at = {} THEN Raised
        ELSE Returned(fonts[sources[CHOOSE i \in at : \A j \in at : i <= j].name])

\* lines 321-333: the walk over layerOrder; layerGlyph is <<the glyph last
\* fetched>> (<<>> before the first fetch) and stays bound from layer to layer
RECURSIVE braceWalk(_, _, _, _, _, _)
braceWalk(f, name, glyphName, i, layerGlyph, braces) ==
    IF i > Len(f.layerOrder) THEN Returned(braces)
    ELSE LET layerName == f.layerOrder[i]
             layer == f.layers[layerName]
             bound == IF glyphName \in DOMAIN layer THEN <<layer[glyphName]>> ELSE layerGlyph
         IN  IF bound = <<>> THEN Raised
             ELSE braceWalk(f, name, glyphName, i + 1, bound,
                      IF bound[1].loc # <<>>
                      THEN Append(braces,
                               [location |-> bound[1].loc[1], glyph |-> mathGlyph(bound[1]),
                                sourceInfo |-> [glyphName |-> glyphName,
                                                layerName |-> layerName,
                                                location |-> bound[1].loc[1],
                                                sourceName |-> name]])
                      ELSE braces)

\* lines 299-334 (the defcon branch): raises when there is no neutral font or
\* the neutral font has no such glyph
collectBraceGlyphs(sources, fonts, glyphName) ==
    LET neutral == getNeutralFont(sources, fonts)
    IN  IF neutral.raised THEN Raised
        ELSE IF isNone(neutral.value) THEN Raised
        ELSE IF glyphName \notin DOMAIN defaultLayer(neutral.value) THEN Raised
        ELSE braceWalk(neutral.value, defaultSource(sources).name, glyphName, 1,
                       <<>>, <<>>)

\* lines 198-205: DecomposePointPen; a component whose base the font lacks is dropped
RECURSIVE decomposed(_, _)
decomposed(f, g) ==
    LET flat[i \in 0..Len(g.components)] ==
            IF i = 0 THEN g.contours
            ELSE flat[i - 1] \o
                 (IF g.components[i] \in DOMAIN defaultLayer(f)
                  THEN decomposed(f, defaultLayer(f)[g.components[i]]).contours
                  ELSE <<>>)
    IN  [g EXCEPT !.contours = flat[Len(g.components)], !.components = <<>>]

\* lines 352-373: one sample per source, muted and missing glyphs skipped
masterItem(src, f, glyphName, decomposeComponents) ==
    [location |-> src.location,
     glyph |-> mathGlyph(IF decomposeComponents
                         THEN decomposed(f, defaultLayer(f)[glyphName])
                         ELSE defaultLayer(f)[glyphName]),
     sourceInfo |-> [glyphName |-> glyphName, layerName |-> "foreground",
                     location |-> src.location, sourceName |-> src.name]]

\* a master list that skips a source as soon as it mutes any glyph
collectMasterItems_mutedSourceDropped(sources, fonts, glyphName, decomposeComponents) ==
    LET items[i \in 0..Len(sources)] ==
            IF i = 0 THEN <<>>
            ELSE IF sources[i].mutedGlyphNames # {} THEN items[i - 1]
            ELSE IF glyphName \notin DOMAIN defaultLayer(fonts[sources[i].name])
                 THEN items[i - 1]
            ELSE Append(items[i - 1],
                     masterItem(sources[i], fonts[sources[i].name], glyphName,
                                decomposeComponents))
    IN  items[Len(sources)]

\* lines 351-374
collectMasterItems(sources, fonts, glyphName, decomposeComponents) ==
    LET items[i \in 0..Len(sources)] ==
            IF i = 0 THEN <<>>
            ELSE IF glyphName \in sources[i].mutedGlyphNames THEN items[i - 1]
            ELSE IF glyphName \notin DOMAIN defaultLayer(fonts[sources[i].name])
                 THEN items[i - 1]
            ELSE Append(items[i - 1],
                     masterItem(sources[i], fonts[sources[i].name], glyphName,
                                decomposeComponents))
    IN  items[Len(sources)]

\* lines 345-386; sourceDescriptor after the loop is the last source
collectMastersForGlyph(sources, fonts, glyphName, decomposeComponents, includeBraces) ==
    LET items == collectMasterItems(sources, fonts, glyphName, decomposeComponents)
        braces == collectBraceGlyphs(sources, fonts, glyphName)
    IN  IF \E i \in DOMAIN sources : /\ glyphName \notin sources[i].mutedGlyphNames
                                     /\ isNone(fonts[sources[i].name])
        THEN Raised
        ELSE IF ~includeBraces THEN Returned(items)
        ELSE IF braces.raised THEN Raised
        ELSE IF braces.value # <<>>
                /\ glyphName \notin sources[Len(sources)].mutedGlyphNames
             THEN Returned(items \o braces.value)
        ELSE Returned(items)

-----------------------------------------------------------------------------
(* Mutators (mutatorMath.buildMutator, one axis): the samples by location, *)
(* the sample at the bias as the neutral.  Evaluation is linear between    *)
(* neighbouring samples and extends the outermost segment beyond them.     *)

\* buildMutator(items, bias): of several samples at one location the last
\* stays; without a sample at the bias there is no neutral and the build fails
buildMutator(items, bias) ==
    LET locs == {items[i].location : i \in DOMAIN items}
        last(l) == CHOOSE i \in DOMAIN items :
                       /\ items[i].location = l
                       /\ \A j \in DOMAIN items : items[j].location = l => j <= i
    IN  IF bias \notin locs THEN Raised
        ELSE Returned([bias |-> bias,
                       points |-> [l \in locs |-> items[last(l)].glyph]])

\* the two sample locations whose line gives the value at t
segment(locs, t) ==
    LET below == {l \in locs : l < t}
        above == {l \in locs : l > t}
        max(S) == CHOOSE x \in S : \A y \in S : y <= x
        min(S) == CHOOSE x \in S : \A y \in S : x <= y
    IN  IF below # {} /\ above # {} THEN <<max(below), min(above)>>
        ELSE IF below = {} THEN <<min(above), min(above \ {min(above)})>>
        ELSE <<max(below \ {max(below)}), max(below)>>

\* mutator.makeInstance(location)
makeMutatorInstance(m, t) ==
    LET locs == DOMAIN m.points
        neutral == m.points[m.bias]
    IN  IF t \in locs THEN m.points[t]
        ELSE IF Cardinality(locs) = 1 THEN neutral
        ELSE LET seg == segment(locs, t)
                 lo == m.points[seg[1]]
                 hi == m.points[seg[2]]
                 at(vlo, vhi) == onLine(seg[1], vlo, seg[2], vhi, t)
             IN  [contours |-> [i \in DOMAIN neutral.contours |->
                                   [of |-> neutral.contours[i].of,
                                    x |-> at(lo.contours[i].x, hi.contours[i].x)]],
                  components |-> neutral.components,
                  width |-> at(lo.width, hi.width),
                  unicodes |-> neutral.unicodes]

\* the samples have as many contours as the neutral; evaluation fails with an
\* IndexError otherwise
aligned(m) ==
    \A l \in DOMAIN m.points : Len(m.points[l].contours) = Len(m.points[m.bias].contours)

\* MathGlyph.round()
roundGlyph(g) ==
    [g EXCEPT !.width = roundNumber(@),
              !.contours = [i \in DOMAIN @ |-> [@[i] EXCEPT !.x = roundNumber(@)]]]

cacheKey(glyphName, decomposeComponents, includeBraces) ==
    <<glyphName, decomposeComponents, includeBraces>>

\* lines 336-343 with the cache keyed by the glyph name and decomposeComponents
\* alone: an entry stored with the other includeBraces value is returned
getGlyphMutator_keyWithoutBraces(sources, fonts, cache, glyphName, decomposeComponents, includeBraces, fromCache) ==
    LET key == cacheKey(glyphName, decomposeComponents, includeBraces)
        other == cacheKey(glyphName, decomposeComponents, ~includeBraces)
        items == collectMastersForGlyph(sources, fonts, glyphName, decomposeComponents,
                                        includeBraces)
        built == IF items.raised THEN Raised ELSE buildMutator(items.value, axisDefault)
    IN  IF key \in DOMAIN cache /\ fromCache
        THEN [raised |-> FALSE, value |-> cache[key], cache |-> cache]
        ELSE IF other \in DOMAIN cache /\ fromCache
        THEN [raised |-> FALSE, value |-> cache[other], cache |-> cache]
        ELSE IF built.raised THEN [raised |-> TRUE, cache |-> cache]
        ELSE [raised |-> FALSE, value |-> built.value,
              cache |-> [k \in DOMAIN cache \cup {key} |->
                            IF k = key THEN built.value ELSE cache[k]]]

\* a mutator built from the first sample alone
getGlyphMutator_firstSampleOnly(sources, fonts, cache, glyphName, decomposeComponents, includeBraces, fromCache) ==
    LET key == cacheKey(glyphName, decomposeComponents, includeBraces)
        items == collectMastersForGlyph(sources, fonts, glyphName, decomposeComponents,
                                        includeBraces)
        built == IF items.raised \/ items.value = <<>> THEN Raised
                 ELSE buildMutator(<<items.value[1]>>, axisDefault)
    IN  IF key \in DOMAIN cache /\ fromCache
        THEN [raised |-> FALSE, value |-> cache[key], cache |-> cache]
        ELSE IF built.raised THEN [raised |-> TRUE, cache |-> cache]
        ELSE [raised |-> FALSE, value |-> built.value,
              cache |-> [k \in DOMAIN cache \cup {key} |->
                            IF k = key THEN built.value ELSE cache[k]]]

\* lines 336-343: the mutator returned and the cache afterwards
getGlyphMutator(sources, fonts, cache, glyphName, decomposeComponents, includeBraces, fromCache) ==
    LET key == cacheKey(glyphName, decomposeComponents, includeBraces)
        items == collectMastersForGlyph(sources, fonts, glyphName, decomposeComponents,
                                        includeBraces)
        built == IF items.raised THEN Raised ELSE buildMutator(items.value, axisDefault)
    IN  IF key \in DOMAIN cache /\ fromCache
        THEN [raised |-> FALSE, value |-> cache[key], cache |-> cache]
        ELSE IF built.raised THEN [raised |-> TRUE, cache |-> cache]
        ELSE [raised |-> FALSE, value |-> built.value,
              cache |-> [k \in DOMAIN cache \cup {key} |->
                            IF k = key THEN built.value ELSE cache[k]]]

-----------------------------------------------------------------------------
(* Rules (fontTools.designspaceLib.processRules) *)

\* a rule fires when the location satisfies every condition it lists
evaluateRule(rule, location) ==
    /\ rule.conditions # <<>>
    /\ \A i \in DOMAIN rule.conditions :
          /\ rule.conditions[i].minimum <= location
          /\ location <= rule.conditions[i].maximum

\* the name a firing rule gives to a name: the target of its first matching sub
substituted(rule, name) ==
    LET hits == {i \in DOMAIN rule.subs : rule.subs[i][1] = name}
    IN  IF hits = {} THEN name
        ELSE rule.subs[CHOOSE i \in hits : \A j \in hits : i <= j][2]

\* the rules in document order, each firing rule renaming the working list
processRules(rules, location, glyphNames) ==
    LET names[r \in 0..Len(rules)] ==
            IF r = 0 THEN glyphNames
            ELSE IF evaluateRule(rules[r], location)
                 THEN [i \in DOMAIN names[r - 1] |-> substituted(rules[r], names[r - 1][i])]
                 ELSE names[r - 1]
    IN  names[Len(rules)]

-----------------------------------------------------------------------------
(* makeInstance *)

get(glyphData, key, default) == IF key \in DOMAIN glyphData THEN glyphData[key] ELSE default

\* lines 523-535: the one-off mutator of a glyph whose instance data lists
\* masters; an unknown or unloaded font raises a TypeError at line 530, a list
\* without a sample at the default raises in buildMutator
mastersMutator(fonts, masters, glyphName) ==
    LET items[i \in 0..Len(masters)] ==
            IF i = 0 THEN <<>>
            ELSE IF get(masters[i], "glyphName", glyphName)
                       \notin DOMAIN defaultLayer(fonts[masters[i].font])
                 THEN items[i - 1]
            ELSE Append(items[i - 1],
                     [location |-> masters[i].location,
                      glyph |-> mathGlyph(defaultLayer(fonts[masters[i].font])
                                              [get(masters[i], "glyphName", glyphName)])])
    IN  IF \E i \in DOMAIN masters :
              masters[i].font \notin DOMAIN fonts \/ isNone(fonts[masters[i].font])
        THEN Raised
        ELSE buildMutator(items[Len(masters)], axisDefault)

\* lines 536-558 without the rounding of lines 544-548
extractInstance_neverRounds(mutator, roundGeometry, location, unicodes, st, glyphName) ==
    IF ~aligned(mutator)
    THEN st
    ELSE [st EXCEPT !.glyphs[glyphName] =
             [mathGlyph(makeMutatorInstance(mutator, location))
                 EXCEPT !.unicodes = unicodes]]

\* lines 536-558: the mutator evaluated at the location, rounded and put into
\* the glyph; an IndexError leaves the cleared glyph
extractInstance(mutator, roundGeometry, location, unicodes, st, glyphName) ==
    IF ~aligned(mutator)
    THEN st
    ELSE [st EXCEPT !.glyphs[glyphName] =
             [mathGlyph(IF roundGeometry
                        THEN roundGlyph(makeMutatorInstance(mutator, location))
                        ELSE makeMutatorInstance(mutator, location))
                 EXCEPT !.unicodes = unicodes]]

\* lines 481-558 with the unicodes of the instance's glyph data passed over
instantiateGlyph_neutralUnicodes(m, fonts, roundGeometry, inst, st, glyphName) ==
    LET glyphData == IF glyphName \in DOMAIN inst.glyphs THEN inst.glyphs[glyphName] ELSE <<>>
        cleared == [st EXCEPT !.glyphs = newGlyph(st.glyphs, glyphName), !.cache = m.cache]
        location == get(glyphData, "instanceLocation", inst.location)
        uniValues == m.value.points[m.value.bias].unicodes
        masters == get(glyphData, "masters", <<>>)
    IN  IF m.raised
        THEN [st EXCEPT !.problems = Append(@, <<"Could not make mutator for glyph", glyphName>>)]
        ELSE IF get(glyphData, "mute", FALSE) THEN cleared
        ELSE IF masters = <<>>
        THEN extractInstance(m.value, roundGeometry, location, uniValues, cleared, glyphName)
        ELSE IF mastersMutator(fonts, masters, glyphName).raised
        THEN [cleared EXCEPT !.raised = TRUE]
        ELSE extractInstance(mastersMutator(fonts, masters, glyphName).value, roundGeometry,
                             location, uniValues, cleared, glyphName)

\* lines 481-558 without the mute test of lines 511-513
instantiateGlyph_muteIgnored(m, fonts, roundGeometry, inst, st, glyphName) ==
    LET glyphData == IF glyphName \in DOMAIN inst.glyphs THEN inst.glyphs[glyphName] ELSE <<>>
        cleared == [st EXCEPT !.glyphs = newGlyph(st.glyphs, glyphName), !.cache = m.cache]
        location == get(glyphData, "instanceLocation", inst.location)
        uniValues == m.value.points[m.value.bias].unicodes
        masters == get(glyphData, "masters", <<>>)
    IN  IF m.raised
        THEN [st EXCEPT !.problems = Append(@, <<"Could not make mutator for glyph", glyphName>>)]
        ELSE IF masters = <<>>
        THEN extractInstance(m.value, roundGeometry, location,
                             get(glyphData, "unicodes", uniValues), cleared, glyphName)
        ELSE IF mastersMutator(fonts, masters, glyphName).raised
        THEN [cleared EXCEPT !.raised = TRUE]
        ELSE extractInstance(mastersMutator(fonts, masters, glyphName).value, roundGeometry,
                             location, get(glyphData, "unicodes", uniValues), cleared,
                             glyphName)

\* lines 481-558 for one glyph name, m being what getGlyphMutator gave: st
\* holds the output glyphs, the mutator cache, the problems so far and whether
\* an exception left makeInstance
instantiateGlyph(m, fonts, roundGeometry, inst, st, glyphName) ==
    LET glyphData == IF glyphName \in DOMAIN inst.glyphs THEN inst.glyphs[glyphName] ELSE <<>>
        cleared == [st EXCEPT !.glyphs = newGlyph(st.glyphs, glyphName), !.cache = m.cache]
        location == get(glyphData, "instanceLocation", inst.location)
        uniValues == m.value.points[m.value.bias].unicodes
        masters == get(glyphData, "masters", <<>>)
    IN  IF m.raised
        THEN [st EXCEPT !.problems = Append(@, <<"Could not make mutator for glyph", glyphName>>)]
        ELSE IF get(glyphData, "mute", FALSE) THEN cleared
        ELSE IF masters = <<>>
        THEN extractInstance(m.value, roundGeometry, location,
                             get(glyphData, "unicodes", uniValues), cleared, glyphName)
        ELSE IF mastersMutator(fonts, masters, glyphName).raised
        THEN [cleared EXCEPT !.raised = TRUE]
        ELSE extractInstance(mastersMutator(fonts, masters, glyphName).value, roundGeometry,
                             location, get(glyphData, "unicodes", uniValues), cleared,
                             glyphName)

\* lines 478-558 for one glyph name; nothing more is done once an exception
\* has left makeInstance
makeGlyph(sources, fonts, roundGeometry, inst, st, glyphName) ==
    IF st.raised THEN st
    ELSE instantiateGlyph(getGlyphMutator(sources, fonts, st.cache, glyphName, FALSE, TRUE, TRUE),
                          fonts, roundGeometry, inst, st, glyphName)

\* the loop of lines 561-563 passing over the first pair of the zip
applyRules_skipsFirst(f, glyphNames, resultNames) ==
    LET after[i \in 0..Len(glyphNames)] ==
            IF i = 0 THEN f
            ELSE IF i # 1 /\ glyphNames[i] # resultNames[i]
                 THEN swapGlyphNames(after[i - 1], glyphNames[i], resultNames[i])
                 ELSE after[i - 1]
    IN  after[Len(glyphNames)]

\* lines 559-563: one swap for every position whose name changed
applyRules(f, glyphNames, resultNames) ==
    LET after[i \in 0..Len(glyphNames)] ==
            IF i = 0 THEN f
            ELSE IF glyphNames[i] # resultNames[i]
                 THEN swapGlyphNames(after[i - 1], glyphNames[i], resultNames[i])
                 ELSE after[i - 1]
    IN  after[Len(glyphNames)]

\* lines 478-558: the glyph loop over self.glyphNames
makeGlyphs(d, p, inst, head) ==
    LET st[i \in 0..Len(p.glyphNames)] ==
            IF i = 0
            THEN [glyphs |-> <<>>, cache |-> p.glyphMutators, problems |-> head.problems,
                  raised |-> head.raised]
            ELSE makeGlyph(d.sources, p.fonts, d.roundGeometry, inst, st[i - 1], p.glyphNames[i])
    IN  st[Len(p.glyphNames)]

\* lines 559-571 with the rules evaluated at the axis default
finishInstance_rulesAtDefault(d, p, inst, doRules, head, done) ==
    [built |-> [glyphs |-> done.glyphs, kerning |-> <<>>, groups |-> <<>>],
     font |-> IF doRules
              THEN applyRules([glyphs |-> done.glyphs, kerning |-> <<>>, groups |-> <<>>],
                              p.glyphNames,
                              processRules(d.rules, axisDefault, p.glyphNames))
              ELSE [glyphs |-> done.glyphs, kerning |-> <<>>, groups |-> <<>>],
     info |-> head.info,
     lib |-> ("designspace" :> <<inst.location>>) @@ head.lib,
     features |-> head.features,
     infoMutator |-> head.infoMutator,
     cache |-> done.cache,
     problems |-> done.problems,
     raised |-> done.raised]

\* lines 559-571, done being the outcome of the glyph loop: the font before the
\* rules, the font returned, the cache and the problems afterwards
finishInstance(d, p, inst, doRules, head, done) ==
    [built |-> [glyphs |-> done.glyphs, kerning |-> <<>>, groups |-> <<>>],
     font |-> IF doRules
              THEN applyRules([glyphs |-> done.glyphs, kerning |-> <<>>, groups |-> <<>>],
                              p.glyphNames,
                              processRules(d.rules, inst.location, p.glyphNames))
              ELSE [glyphs |-> done.glyphs, kerning |-> <<>>, groups |-> <<>>],
     info |-> head.info,
     lib |-> ("designspace" :> <<inst.location>>) @@ head.lib,
     features |-> head.features,
     infoMutator |-> head.infoMutator,
     cache |-> done.cache,
     problems |-> done.problems,
     raised |-> done.raised]

\* the info attributes of the model: two numbers, two texts and a list
InfoAttributes == {"ascender", "versionMajor", "copyright", "familyName", "openTypeNameRecords"}

\* MathInfo(sourceFont.info) keeps the numbers
mathInfo(info) == [a \in {"ascender", "versionMajor"} |-> info[a]]

\* the attributes a UFO of the version has (ufoLib fontInfoAttributesVersion2
\* and fontInfoAttributesVersion3): UFO 3 added openTypeNameRecords
fontInfoAttributes(ufoVersion) ==
    IF ufoVersion = 3 THEN InfoAttributes ELSE InfoAttributes \ {"openTypeNameRecords"}

\* lines 593-629: the attributes _copyFontInfo lists
copiedAttributes == {"versionMajor", "copyright", "openTypeNameRecords"}

\* lines 631-640: target info after _copyFontInfo(sourceInfo, targetInfo)
copyFontInfo(ufoVersion, sourceInfo, targetInfo) ==
    [a \in DOMAIN targetInfo \cup (copiedAttributes \cap fontInfoAttributes(ufoVersion)) |->
        IF a \in copiedAttributes \cap fontInfoAttributes(ufoVersion) THEN sourceInfo[a]
        ELSE targetInfo[a]]

\* lines 274-284: the info mutator, from self._infoMutator when there is one
getInfoMutator(sources, fonts, infoMutator) ==
    IF infoMutator # <<>> THEN Returned(infoMutator[1])
    ELSE IF \E i \in DOMAIN sources : isNone(fonts[sources[i].name]) THEN Raised
    ELSE buildMutator([i \in DOMAIN sources |->
                          [location |-> sources[i].location,
                           glyph |-> mathInfo(fonts[sources[i].name].info)]],
                      axisDefault)

\* infoMutator.makeInstance(location)
makeInfoInstance(m, t) ==
    LET locs == DOMAIN m.points
    IN  IF t \in locs THEN m.points[t]
        ELSE IF Cardinality(locs) = 1 THEN m.points[m.bias]
        ELSE [a \in DOMAIN m.points[m.bias] |->
                 onLine(segment(locs, t)[1], m.points[segment(locs, t)[1]][a],
                        segment(locs, t)[2], m.points[segment(locs, t)[2]][a], t)]

\* lines 440-444: the names of the instance descriptor
explicitNames(inst) ==
    [familyName |-> inst.familyName, styleName |-> inst.styleName,
     postScriptFontName |-> inst.postScriptFontName]

\* lines 434-454, m being what getInfoMutator gave: the info of the new font,
\* self._infoMutator and the problems
interpolatedInfo(m, p, inst) ==
    IF ~inst.info
    THEN [info |-> <<>>, infoMutator |-> p.infoMutator, problems |-> p.problems]
    ELSE IF m.raised
    THEN [info |-> <<>>, infoMutator |-> p.infoMutator,
          problems |-> Append(p.problems, <<"Could not make fontinfo for", inst.location>>)]
    ELSE [info |-> explicitNames(inst) @@ makeInfoInstance(m.value, inst.location),
          infoMutator |-> <<m.value>>, problems |-> p.problems]

\* lines 455-469 with the copies made before the info is interpolated: the
\* interpolated values come over the copied ones
copyFromSources_beforeInfo(d, p, inst, start) ==
    LET st[i \in 0..Len(d.sources)] ==
            IF i = 0
            THEN [info |-> <<>>, lib |-> <<>>, features |-> <<>>,
                  infoMutator |-> start.infoMutator, problems |-> start.problems,
                  raised |-> FALSE]
            ELSE IF st[i - 1].raised THEN st[i - 1]
            ELSE IF isNone(p.fonts[d.sources[i].name])
                    /\ (d.sources[i].copyInfo \/ d.sources[i].copyLib \/ d.sources[i].copyFeatures)
            THEN [st[i - 1] EXCEPT !.raised = TRUE]
            ELSE [st[i - 1] EXCEPT
                     !.info = IF d.sources[i].copyInfo
                              THEN copyFontInfo(p.ufoVersion, p.fonts[d.sources[i].name].info, @)
                              ELSE @,
                     !.lib = IF d.sources[i].copyLib
                             THEN p.fonts[d.sources[i].name].lib @@ @
                             ELSE @,
                     !.features = IF d.sources[i].copyFeatures
                                  THEN <<p.fonts[d.sources[i].name].features>>
                                  ELSE @]
    IN  [st[Len(d.sources)] EXCEPT !.info = start.info @@ @]

\* lines 455-469, start being the outcome of lines 434-454: info, lib and
\* features of the new font after the copies from the flagged sources
copyFromSources(d, p, inst, start) ==
    LET st[i \in 0..Len(d.sources)] ==
            IF i = 0
            THEN [info |-> start.info, lib |-> <<>>, features |-> <<>>,
                  infoMutator |-> start.infoMutator, problems |-> start.problems,
                  raised |-> FALSE]
            ELSE IF st[i - 1].raised THEN st[i - 1]
            ELSE IF isNone(p.fonts[d.sources[i].name])
                    /\ (d.sources[i].copyInfo \/ d.sources[i].copyLib \/ d.sources[i].copyFeatures)
            THEN [st[i - 1] EXCEPT !.raised = TRUE]
            ELSE [st[i - 1] EXCEPT
                     !.info = IF d.sources[i].copyInfo
                              THEN copyFontInfo(p.ufoVersion, p.fonts[d.sources[i].name].info, @)
                              ELSE @,
                     !.lib = IF d.sources[i].copyLib
                             THEN p.fonts[d.sources[i].name].lib @@ @
                             ELSE @,
                     !.features = IF d.sources[i].copyFeatures
                                  THEN <<p.fonts[d.sources[i].name].features>>
                                  ELSE @]
    IN  st[Len(d.sources)]

\* lines 434-469: info, lib and features of the new font
makeFontInfo(d, p, inst) ==
    copyFromSources(d, p, inst,
                    interpolatedInfo(getInfoMutator(d.sources, p.fonts, p.infoMutator), p, inst))

\* lines 415-571 after the copies, head being the outcome of lines 415-469
makeFont(d, p, inst, doRules, head) ==
    finishInstance(d, p, inst, doRules, head, makeGlyphs(d, p, inst, head))

\* lines 415-571 (the kerning apart, which no instance here asks for)
makeInstance(d, p, inst, doRules) ==
    makeFont(d, p, inst, doRules, makeFontInfo(d, p, inst))

-----------------------------------------------------------------------------
(* The documents and the calls made on a DesignSpaceProcessor *)

\* most direct calls of getGlyphMutator in one behaviour
MaxGets == 1

\* most calls of makeInstance on one processor with info asked for
MaxMakes == 1

rule(minimum, maximum, subs) ==
    [conditions |-> <<[minimum |-> minimum, maximum |-> maximum]>>, subs |-> subs]

RuleLists ==
    { <<>>,
      <<rule(500, 1000, <<<<nA, nB>>>>)>>,
      <<rule(500, 1000, <<<<nA, nB>>, <<nB, nA>>>>)>>,
      <<rule(0, 1000, <<<<nA, nB>>>>), rule(800, 2000, <<<<nB, nC>>>>)>>,
      <<[conditions |-> <<[minimum |-> 0, maximum |-> 1000],
                          [minimum |-> 800, maximum |-> 2000]>>,
         subs |-> <<<<nA, nB>>>>]>> }

Documents ==
    {[sources |-> s, rules |-> r, roundGeometry |-> g] :
        s \in SourceLists, r \in RuleLists, g \in BOOLEAN}

instance(location, glyphs) ==
    [location |-> location, glyphs |-> glyphs, info |-> FALSE, familyName |-> "",
     styleName |-> "", postScriptFontName |-> ""]

\* the instance descriptors makeInstance is called with
Instances ==
    {instance(t, <<>>) : t \in {-200, 0, 1, 250, 800, 1000, 1500}}
    \cup {instance(1000, (nB :> ("mute" :> TRUE))),
          instance(1000, (nA :> (("instanceLocation" :> 400)
                                  @@ ("unicodes" :> <<291, 292, 293>>))))}

orderings(S) ==
    {p \in [1..Cardinality(S) -> S] : \A i, j \in DOMAIN p : p[i] = p[j] => i = j}

NoCall == [op |-> "none", gets |-> 0]

\* the target UFO version of a processor made without arguments
defaultUFOVersion == 3

\* lines 236-248: DesignSpaceProcessor(ufoVersion=ufoVersion)
newProcessor(ufoVersion) ==
    [ufoVersion |-> ufoVersion, fonts |-> <<>>, glyphNames |-> <<>>, fontsLoaded |-> FALSE,
     glyphMutators |-> <<>>, infoMutator |-> <<>>, problems |-> <<>>]

InitProc ==
    /\ mode = "proc"
    /\ doc \in Documents
    /\ proc = newProcessor(defaultUFOVersion)
    /\ call = NoCall
    /\ disk = <<>>
    /\ font = <<>> /\ orig = <<>> /\ args = <<>>

\* lines 402-408: the sources loadFonts has to load
freshSources(d, p) == {i \in DOMAIN d.sources : d.sources[i].name \notin DOMAIN p.fonts}

\* lines 402-412: the names of the glyphs of the fonts loadFonts loads
freshNames(d, p) ==
    UNION {DOMAIN defaultLayer(d.sources[i].font) :
              i \in {j \in freshSources(d, p) : ~isNone(d.sources[j].font)}}

\* lines 398-413: the processor after loadFonts(reload), list(names) having
\* come in the given order
loadFonts(d, p, reload, order) ==
    LET fresh == freshSources(d, p)
        loaded[i \in 0..Len(d.sources)] ==
            IF i = 0 THEN p.problems
            ELSE IF i \in fresh
                 THEN Append(loaded[i - 1],
                             <<IF isNone(d.sources[i].font) THEN "can't load master from"
                               ELSE "loaded master from", d.sources[i].name>>)
                 ELSE loaded[i - 1]
    IN  IF p.fontsLoaded /\ ~reload THEN p
        ELSE [p EXCEPT
                 !.fonts = [n \in DOMAIN p.fonts \cup {d.sources[i].name : i \in fresh} |->
                               IF n \in DOMAIN p.fonts THEN p.fonts[n]
                               ELSE d.sources[CHOOSE i \in fresh : d.sources[i].name = n].font],
                 !.glyphNames = order,
                 !.fontsLoaded = TRUE,
                 !.problems = loaded[Len(d.sources)]]

\* loadFonts(reload); list(names) comes in any order
LoadFonts(reload) ==
    /\ mode = "proc" /\ call.op = "none"
    /\ ~(proc.fontsLoaded /\ ~reload)
    /\ \E order \in orderings(freshNames(doc, proc)) :
          proc' = loadFonts(doc, proc, reload, order)
    /\ UNCHANGED <<doc, call, disk, mode, swapVars>>

\* collectMastersForGlyph(glyphName, decomposeComponents, includeBraces)
CollectMastersForGlyph(glyphName, decomposeComponents, includeBraces) ==
    /\ mode = "proc" /\ call.op = "none"
    /\ proc.fontsLoaded /\ proc.fonts # <<>>
    /\ call' = [op |-> "collect", gets |-> 0, glyphName |-> glyphName,
                decomposeComponents |-> decomposeComponents,
                includeBraces |-> includeBraces,
                result |-> collectMastersForGlyph(doc.sources, proc.fonts, glyphName,
                                                  decomposeComponents, includeBraces)]
    /\ UNCHANGED <<doc, proc, disk, mode, swapVars>>

\* _collectBraceGlyphs(glyphName)
CollectBraceGlyphs(glyphName) ==
    /\ mode = "proc" /\ call.op = "none"
    /\ proc.fontsLoaded /\ proc.fonts # <<>>
    /\ call' = [op |-> "braces", gets |-> 0, glyphName |-> glyphName,
                result |-> collectBraceGlyphs(doc.sources, proc.fonts, glyphName)]
    /\ UNCHANGED <<doc, proc, disk, mode, swapVars>>

\* getGlyphMutator(glyphName, decomposeComponents, includeBraces, fromCache)
GetGlyphMutator(glyphName, decomposeComponents, includeBraces, fromCache) ==
    /\ mode = "proc" /\ call.op \in {"none", "get"} /\ call.gets < MaxGets
    /\ proc.fontsLoaded /\ proc.fonts # <<>>
    /\ \E r \in {getGlyphMutator(doc.sources, proc.fonts, proc.glyphMutators, glyphName,
                                 decomposeComponents, includeBraces, fromCache)} :
           /\ proc' = [proc EXCEPT !.glyphMutators = r.cache]
           /\ call' = [op |-> "get", gets |-> call.gets + 1, glyphName |-> glyphName,
                       decomposeComponents |-> decomposeComponents,
                       includeBraces |-> includeBraces, fromCache |-> fromCache,
                       result |-> IF r.raised THEN Raised ELSE Returned(r.value)]
    /\ UNCHANGED <<doc, disk, mode, swapVars>>

\* makeInstance(instanceDescriptor, doRules)
MakeInstance(inst, doRules) ==
    /\ mode = "proc" /\ call.op = "none"
    /\ proc.fontsLoaded /\ proc.fonts # <<>>
    /\ \E r \in {makeInstance(doc, proc, inst, doRules)} :
           /\ proc' = [proc EXCEPT !.glyphMutators = r.cache, !.infoMutator = r.infoMutator,
                                    !.problems = r.problems]
           /\ call' = [op |-> "make", gets |-> 0, instance |-> inst, doRules |-> doRules,
                       built |-> r.built, font |-> r.font, info |-> r.info, lib |-> r.lib,
                       features |-> r.features, raised |-> r.raised]
    /\ UNCHANGED <<doc, disk, mode, swapVars>>

NextProc ==
    \/ \E reload \in BOOLEAN : LoadFonts(reload)
    \/ \E g \in {nA, nB, nC}, dc \in BOOLEAN, br \in BOOLEAN : CollectMastersForGlyph(g, dc, br)
    \/ \E g \in {nA, nB, nC} : CollectBraceGlyphs(g)
    \/ \E g \in {nA, nB, nC}, dc \in BOOLEAN, br \in BOOLEAN, fc \in BOOLEAN :
          GetGlyphMutator(g, dc, br, fc)
    \/ \E inst \in Instances, doRules \in BOOLEAN : MakeInstance(inst, doRules)

SpecProc == InitProc /\ [][NextProc]_vars

-----------------------------------------------------------------------------
(* generateUFO and build: the instances of a document written to their paths *)

\* an instance descriptor with its path: <<path>>, or <<>> for None
filed(inst, path) == inst @@ [path |-> path]

\* glyph data listing masters: a master of a font the document does not have
lostMasters == ("masters" :> <<[font |-> "lost", location |-> 0]>>)

\* glyph data listing masters: glyph a of light and glyph b of bold
mixedMasters ==
    ("masters" :> <<[font |-> "light", location |-> 0],
                    [font |-> "bold", glyphName |-> nB, location |-> 1000]>>)

\* the instances of the documents generateUFO works on
InstanceLists ==
    { <<filed(instance(1000, (nA :> ("unicodes" :> <<291, 292, 293>>))), <<"p1">>),
        filed(instance(250, <<>>), <<"p2">>)>>,
      <<filed(instance(250, (nA :> lostMasters)), <<"p1">>),
        filed(instance(250, <<>>), <<"p2">>)>>,
      <<filed(instance(250, <<>>), <<>>),
        filed(instance(800, <<>>), <<"p1">>)>>,
      <<filed(instance(250, (nA :> mixedMasters)), <<"p1">>),
        filed(instance(1000, <<>>), <<"p2">>)>> }

Paths == {"p1", "p2", "p3", "p4"}

GenDocuments ==
    {[sources |-> s, rules |-> r, roundGeometry |-> FALSE, instances |-> i] :
        s \in {<<light, bold>>, <<light, boldMissing>>, <<lightNoC, bold>>},
        r \in {<<>>, <<rule(500, 1000, <<<<nA, nB>>>>)>>},
        i \in InstanceLists}

\* a UFO on disk: the formatVersion of its metainfo.plist and the font saved
ufo(formatVersion, f) == [formatVersion |-> formatVersion, font |-> f]

\* a UFO that was at a path before any call
oldFont == [glyphs |-> <<>>, kerning |-> <<>>, groups |-> <<>>]

\* what the paths hold before generateUFO or build is called
Disks ==
    {("p1" :> a) @@ ("p2" :> b) @@ ("p3" :> <<>>) @@ ("p4" :> <<>>) :
        a \in {<<>>, <<ufo(2, oldFont)>>, <<ufo(3, oldFont)>>},
        b \in {<<>>, <<ufo(3, oldFont)>>}}

\* lines 98-111
getUFOVersion(dsk, path) == dsk[path][1].formatVersion

\* lines 261-272, made being what makeInstance gave for the instance: st holds
\* the processor, the disk and whether an exception left generateUFO
saveInstance(made, inst, st) ==
    LET p == [st.proc EXCEPT !.glyphMutators = made.cache, !.infoMutator = made.infoMutator,
                             !.problems = made.problems]
        path == inst.path[1]
    IN  IF made.raised THEN [proc |-> p, disk |-> st.disk, raised |-> TRUE]
        ELSE IF st.disk[path] # <<>>
        THEN IF getUFOVersion(st.disk, path) > p.ufoVersion
             THEN [st EXCEPT !.proc = [p EXCEPT !.problems =
                                          Append(@, <<"Can't overwrite existing UFO", path>>)]]
             ELSE [st EXCEPT !.proc = p]
        ELSE [st EXCEPT !.proc = [p EXCEPT !.problems = Append(@, <<"Generated", path>>)],
                        !.disk[path] = <<ufo(p.ufoVersion, made.font)>>]

\* lines 250-272: the processor and the disk after generateUFO(processRules)
generateUFO(d, p, dsk, doRules, order) ==
    LET st[i \in 0..Len(d.instances)] ==
            IF i = 0
            THEN [proc |-> loadFonts(d, p, FALSE, order), disk |-> dsk, raised |-> FALSE]
            ELSE IF st[i - 1].raised \/ d.instances[i].path = <<>> THEN st[i - 1]
            ELSE saveInstance(makeInstance(d, st[i - 1].proc, d.instances[i], doRules),
                              d.instances[i], st[i - 1])
    IN  st[Len(d.instances)]

\* lines 85-96 for one document, generated being what generateUFO gave: st
\* holds the results and the disk
collectResult(generated, st) ==
    [results |-> IF generated.raised THEN st.results ELSE Append(st.results, "None"),
     disk |-> generated.disk]

\* lines 63-96: the results and the disk after build; every document gets a
\* processor of its own
build(todo, dsk, outputUFOFormatVersion, roundGeometry, doRules, order) ==
    LET st[i \in 0..Len(todo)] ==
            IF i = 0 THEN [results |-> <<>>, disk |-> dsk]
            ELSE collectResult(generateUFO([todo[i] EXCEPT !.roundGeometry = roundGeometry],
                                           newProcessor(outputUFOFormatVersion),
                                           st[i - 1].disk, doRules, order),
                               st[i - 1])
    IN  st[Len(todo)]

\* a document with paths of its own whose instances are made without failure
plainDocument ==
    [sources |-> <<light, bold>>, rules |-> <<>>, roundGeometry |-> FALSE,
     instances |-> <<filed(instance(250, <<>>), <<"p3">>),
                     filed(instance(1000, <<>>), <<"p4">>)>>]

InitGen ==
    /\ mode = "gen"
    /\ doc \in GenDocuments
    /\ \E v \in {2, 3} : proc = newProcessor(v)
    /\ call = NoCall
    /\ disk \in Disks
    /\ font = <<>> /\ orig = <<>> /\ args = <<>>

\* generateUFO(processRules)
GenerateUFO(doRules) ==
    /\ mode = "gen" /\ call.op = "none"
    /\ \E order \in orderings(freshNames(doc, proc)) :
       \E r \in {generateUFO(doc, proc, disk, doRules, order)} :
           /\ proc' = r.proc
           /\ disk' = r.disk
           /\ call' = [op |-> "generate", gets |-> 0, processRules |-> doRules,
                       before |-> disk, raised |-> r.raised]
    /\ UNCHANGED <<doc, mode, swapVars>>

\* build(documentPath): the folder holds the document alone or together with
\* the plain document
Build(todo, roundGeometry, doRules) ==
    /\ mode = "gen" /\ call.op = "none"
    /\ \E order \in orderings({nA, nB, nC}) :
       \E r \in {build(todo, disk, proc.ufoVersion, roundGeometry, doRules, order)} :
           /\ disk' = r.disk
           /\ call' = [op |-> "build", gets |-> 0, todo |-> todo, processRules |-> doRules,
                       before |-> disk, results |-> r.results]
    /\ UNCHANGED <<doc, proc, mode, swapVars>>

NextGen ==
    \/ \E doRules \in BOOLEAN : GenerateUFO(doRules)
    \/ \E todo \in {<<doc>>, <<doc, plainDocument>>, <<plainDocument, doc>>},
          doRules \in BOOLEAN :
          Build(todo, TRUE, doRules)

SpecGen == InitGen /\ [][NextGen]_vars

-----------------------------------------------------------------------------
(* makeInstance of instances that ask for the info, from sources that carry *)
(* info, lib and features and may be flagged for copying                    *)

\* font.info of a master
fontInfo(size, tag) ==
    ("ascender" :> whole(8 * size)) @@ ("versionMajor" :> whole(size \div 100))
    @@ ("copyright" :> tag) @@ ("familyName" :> tag) @@ ("openTypeNameRecords" :> tag)

\* a master with info, lib and features; the lib of every master but the
\* first has a designspace entry of an earlier generation
infoFont(size, tag) ==
    plainFont({nA, nB, nC}, size)
    @@ [info |-> fontInfo(size, tag),
        lib |-> IF size = 100 THEN ("public.glyphOrder" :> <<size>>)
                ELSE ("public.glyphOrder" :> <<size>>) @@ ("designspace" :> <<size>>),
        features |-> tag]

\* the source with its copy flags set
flagged(src, copyInfo, copyLib, copyFeatures) ==
    [src EXCEPT !.copyInfo = copyInfo, !.copyLib = copyLib, !.copyFeatures = copyFeatures]

lightInfo == source("light", 0, infoFont(100, "light"), {})

boldInfo == source("bold", 1000, infoFont(500, "bold"), {})

InfoSourceLists ==
    {<<l, b>> : l \in {lightInfo, flagged(lightInfo, TRUE, TRUE, TRUE)},
                b \in {boldInfo, flagged(boldInfo, TRUE, TRUE, TRUE),
                       flagged(boldInfo, TRUE, FALSE, FALSE)}}
    \cup {<<flagged(lightInfo, TRUE, TRUE, TRUE), boldMissing>>,
          <<lightInfo, flagged(boldMissing, TRUE, FALSE, FALSE)>>}

InfoDocuments ==
    {[sources |-> s, rules |-> r, roundGeometry |-> FALSE] :
        s \in InfoSourceLists, r \in {<<>>, <<rule(500, 1000, <<<<nA, nB>>>>)>>}}

\* the instance with info asked for and its names given
named(inst, info) ==
    [inst EXCEPT !.info = info, !.familyName = "TestFamily", !.styleName = "TestStyle",
                 !.postScriptFontName = "TestPostScriptName"]

InfoInstances == {named(instance(t, <<>>), info) : t \in {0, 250, 1000}, info \in BOOLEAN}

InitInfo ==
    /\ mode = "info"
    /\ doc \in InfoDocuments
    /\ \E v \in {2, 3} : proc = newProcessor(v)
    /\ call = NoCall
    /\ disk = <<>>
    /\ font = <<>> /\ orig = <<>> /\ args = <<>>

\* loadFonts() of a document in which masters carry info
LoadInfoFonts ==
    /\ mode = "info" /\ call.op = "none" /\ ~proc.fontsLoaded
    /\ \E order \in orderings(freshNames(doc, proc)) :
          proc' = loadFonts(doc, proc, FALSE, order)
    /\ UNCHANGED <<doc, call, disk, mode, swapVars>>

\* makeInstance(instanceDescriptor, doRules) of an instance with names; a
\* later call on the same processor finds self._infoMutator
MakeNamedInstance(inst, doRules) ==
    /\ mode = "info" /\ call.op \in {"none", "make"} /\ call.gets < MaxMakes
    /\ proc.fontsLoaded
    /\ \E r \in {makeInstance(doc, proc, inst, doRules)} :
           /\ proc' = [proc EXCEPT !.glyphMutators = r.cache, !.infoMutator = r.infoMutator,
                                    !.problems = r.problems]
           /\ call' = [op |-> "make", gets |-> call.gets + 1, instance |-> inst,
                       doRules |-> doRules, before |-> proc,
                       built |-> r.built, font |-> r.font, info |-> r.info, lib |-> r.lib,
                       features |-> r.features, raised |-> r.raised]
    /\ UNCHANGED <<doc, disk, mode, swapVars>>

NextInfo ==
    \/ LoadInfoFonts
    \/ \E inst \in InfoInstances, doRules \in BOOLEAN : MakeNamedInstance(inst, doRules)

SpecInfo == InitInfo /\ [][NextInfo]_vars

-----------------------------------------------------------------------------
(* The mutator cache over several calls, with the document edited and the  *)
(* fonts reloaded in between                                                *)

\* most calls of getGlyphMutator on one processor
MaxCached == 3

\* most edits of the document while the processor lives
MaxEdits == 1

CacheDocuments ==
    {[sources |-> s, rules |-> <<>>, roundGeometry |-> FALSE] :
        s \in {<<light, bold>>, <<lightBraceLast, bold>>}}

\* no call made yet: since counts the keys built since the last reload
CacheStart == [op |-> "none", gets |-> 0, edits |-> 0, reloaded |-> FALSE, since |-> {}]

InitCache ==
    /\ mode = "cache"
    /\ doc \in CacheDocuments
    /\ proc = newProcessor(defaultUFOVersion)
    /\ call = CacheStart
    /\ disk = <<>>
    /\ font = <<>> /\ orig = <<>> /\ args = <<>>

\* loadFonts(reload) between the calls of getGlyphMutator
ReloadFonts(reload) ==
    /\ mode = "cache"
    /\ ~(proc.fontsLoaded /\ ~reload)
    /\ \E order \in orderings(freshNames(doc, proc)) :
          proc' = loadFonts(doc, proc, reload, order)
    /\ call' = [op |-> "load", gets |-> call.gets, edits |-> call.edits,
                reloaded |-> proc.fontsLoaded, since |-> {}, before |-> proc.glyphMutators]
    /\ UNCHANGED <<doc, disk, mode, swapVars>>

\* the caller mutes a glyph in a master of the document (line 367 reads
\* mutedGlyphNames at every collection)
MuteGlyph(i, glyphName) ==
    /\ mode = "cache" /\ call.edits < MaxEdits
    /\ i \in DOMAIN doc.sources /\ glyphName \notin doc.sources[i].mutedGlyphNames
    /\ doc' = [doc EXCEPT !.sources[i].mutedGlyphNames = @ \cup {glyphName}]
    /\ call' = [op |-> "edit", gets |-> call.gets, edits |-> call.edits + 1,
                reloaded |-> call.reloaded, since |-> call.since]
    /\ UNCHANGED <<proc, disk, mode, swapVars>>

\* getGlyphMutator(glyphName, decomposeComponents, includeBraces, fromCache),
\* one call after another on the same processor
GetCachedMutator(glyphName, decomposeComponents, includeBraces, fromCache) ==
    /\ mode = "cache" /\ call.gets < MaxCached
    /\ proc.fontsLoaded
    /\ \E r \in {getGlyphMutator(doc.sources, proc.fonts, proc.glyphMutators, glyphName,
                                 decomposeComponents, includeBraces, fromCache)} :
           /\ proc' = [proc EXCEPT !.glyphMutators = r.cache]
           /\ call' = [op |-> "get", gets |-> call.gets + 1, edits |-> call.edits,
                       reloaded |-> call.reloaded,
                       since |-> IF r.raised
                                    \/ (fromCache /\ cacheKey(glyphName, decomposeComponents,
                                                               includeBraces)
                                                      \in DOMAIN proc.glyphMutators)
                                 THEN call.since
                                 ELSE call.since \cup {cacheKey(glyphName, decomposeComponents,
                                                                includeBraces)},
                       glyphName |-> glyphName,
                       decomposeComponents |-> decomposeComponents,
                       includeBraces |-> includeBraces, fromCache |-> fromCache,
                       before |-> proc.glyphMutators,
                       result |-> IF r.raised THEN Raised ELSE Returned(r.value)]
    /\ UNCHANGED <<doc, disk, mode, swapVars>>

NextCache ==
    \/ \E reload \in BOOLEAN : ReloadFonts(reload)
    \/ \E glyphName \in {nA, nB} : MuteGlyph(2, glyphName)
    \/ \E glyphName \in {nA, nB}, includeBraces \in BOOLEAN, fromCache \in BOOLEAN :
          GetCachedMutator(glyphName, FALSE, includeBraces, fromCache)

SpecCache == InitCache /\ [][NextCache]_vars

-----------------------------------------------------------------------------
(* The editor (designspaceEditor/ui.py): rows dragged and dropped inside a  *)
(* list. Python lists count from 0, sequences from 1.                       *)

\* most rows of a list
MaxRows == 3

\* the rows a list starts with
startRows(n) == [i \in 1..n |-> "row" \o ToString(i)]

\* [items[index] for index in indexes], indexes being sorted
rowsAt(items, indexes) ==
    LET picked[i \in 0..Len(items)] ==
            IF i = 0 THEN <<>>
            ELSE IF (i - 1) \in indexes THEN Append(picked[i - 1], items[i])
            ELSE picked[i - 1]
    IN  picked[Len(items)]

\* list.insert(index, x): an index past the end appends
insert(items, index, x) ==
    LET k == IF index > Len(items) THEN Len(items) ELSE index
    IN  SubSeq(items, 1, k) \o <<x>> \o SubSeq(items, k + 1, Len(items))

\* lines 1588-1604 with line 1598 left out: the rows go in at the drop row
dropCallback_rowIndexKept(items, dropInfo) ==
    LET indexes == dropInfo.data
        toMove == rowsAt(items, indexes)
        rest == rowsAt(items, (0..(Len(items) - 1)) \ indexes)
        moved[k \in 0..Len(toMove)] ==
            IF k = 0 THEN rest
            ELSE insert(moved[k - 1], dropInfo.rowIndex + k - 1, toMove[k])
    IN  IF dropInfo.isProposal THEN items ELSE moved[Len(toMove)]

\* lines 1588-1604: the items of the list after dropCallback(sender, dropInfo)
dropCallback(items, dropInfo) ==
    LET indexes == dropInfo.data
        toMove == rowsAt(items, indexes)
        rest == rowsAt(items, (0..(Len(items) - 1)) \ indexes)
        rowIndex == dropInfo.rowIndex - Cardinality({index \in indexes : index < dropInfo.rowIndex})
        moved[k \in 0..Len(toMove)] ==
            IF k = 0 THEN rest
            ELSE insert(moved[k - 1], rowIndex + k - 1, toMove[k])
    IN  IF dropInfo.isProposal THEN items ELSE moved[Len(toMove)]

\* a list of rows, nothing dropped yet
InitDrop ==
    /\ mode = "drop"
    /\ \E n \in 0..MaxRows : proc = startRows(n)
    /\ call = [op |-> "none"]
    /\ doc = <<>> /\ disk = <<>>
    /\ font = <<>> /\ orig = <<>> /\ args = <<>>

\* rows of the list are dragged (dragCallback, lines 1585-1586, hands over
\* their indexes) and dropped on the list before row rowIndex
DropCallback(data, rowIndex, isProposal) ==
    /\ mode = "drop"
    /\ proc' = dropCallback(proc, [data |-> data, rowIndex |-> rowIndex, isProposal |-> isProposal])
    /\ call' = [op |-> "drop", data |-> data, rowIndex |-> rowIndex,
                isProposal |-> isProposal, before |-> proc]
    /\ UNCHANGED <<doc, disk, mode, swapVars>>

NextDrop ==
    \E data \in SUBSET (0..(Len(proc) - 1)), rowIndex \in 0..Len(proc), isProposal \in BOOLEAN :
        DropCallback(data, rowIndex, isProposal)

SpecDrop == InitDrop /\ [][NextDrop]_vars

-----------------------------------------------------------------------------
(* The editor: the axes of the document. An axis descriptor is a record of *)
(* its name, its tag and whether it is discrete; the item at row i of the   *)
(* axes list holds the descriptor operator.axes[i]. A value that comes from *)
(* a cell of the list is <<text>>, or <<>> for None.                        *)

\* most axes of a document
MaxAxes == 2

\* lines 42-48: name and tag of the preferred axes
preferredAxes == <<[name |-> "weight", tag |-> "wght"], [name |-> "width", tag |-> "wdth"], [name |-> "optical", tag |-> "opsz"]>>

\* the values typed into a name cell and into a tag cell; an emptied cell
\* hands None to the setter
AxisNameValues == {<<>>, <<"weight">>, <<"newAxis2">>}

AxisTagValues == {<<>>, <<"wght">>, <<"nwx2">>}

\* str(value)
str(value) == IF value = <<>> THEN "None" ELSE value[1]

\* axisDescriptor.name == name, for the text of a descriptor and a value
equalText(text, value) == value # <<>> /\ value[1] = text

\* lines 1608-1612
validateAxisName(axes, name) == \A i \in DOMAIN axes : ~equalText(axes[i].name, name)

\* lines 1614-1618
validateAxisTag(axes, tag) == \A i \in DOMAIN axes : ~equalText(axes[i].tag, tag)

\* lines 964-974: operator.axes after _addAxis(name, tag, ...)
addAxis(axes, name, tag) ==
    IF validateAxisName(axes, <<name>>) /\ validateAxisTag(axes, <<tag>>)
    THEN Append(axes, [name |-> name, tag |-> tag, discrete |-> FALSE])
    ELSE axes

\* lines 941-944 and 92-94: the axes of the selected rows removed
removeAxes(axes, selection) == rowsAt(axes, (0..(Len(axes) - 1)) \ selection)

\* lines 1452-1465: the descriptor at the index replaced by one of the other
\* class with the same name and tag
convertAxisTo(axes, index, discrete) ==
    [axes EXCEPT ![index] = [name |-> axes[index].name, tag |-> axes[index].tag,
                             discrete |-> discrete]]

\* a new document, or one with a discrete italic axis
InitAxes ==
    /\ mode = "axes"
    /\ doc \in {[axes |-> <<>>],
                [axes |-> <<[name |-> "italic", tag |-> "ital", discrete |-> TRUE]>>]}
    /\ call = [op |-> "none", refused |-> FALSE]
    /\ proc = <<>> /\ disk = <<>>
    /\ font = <<>> /\ orig = <<>> /\ args = <<>>

\* lines 937-954, axisToolsCallback: the - button removes the axes of the
\* selected rows, the + button adds newAxis<n>
AxisToolsCallback(value, selection) ==
    /\ mode = "axes"
    /\ value = 0 => Len(doc.axes) < MaxAxes
    /\ \E axes \in {IF value = 1 THEN removeAxes(doc.axes, selection)
                    ELSE addAxis(doc.axes, "newAxis" \o ToString(Len(doc.axes) + 1),
                                 "nwx" \o ToString(Len(doc.axes) + 1))} :
          /\ doc' = [doc EXCEPT !.axes = axes]
          /\ call' = [op |-> IF value = 1 THEN "remove" ELSE "add",
                      refused |-> value # 1 /\ axes = doc.axes]
    /\ UNCHANGED <<proc, disk, mode, swapVars>>

\* lines 956-962, axisEditorToolsCallback: one of the preferred axes is added
AxisEditorToolsCallback(value) ==
    /\ mode = "axes"
    /\ Len(doc.axes) < MaxAxes
    /\ \E axes \in {addAxis(doc.axes, preferredAxes[value + 1].name, preferredAxes[value + 1].tag)} :
          /\ doc' = [doc EXCEPT !.axes = axes]
          /\ call' = [op |-> "add", refused |-> axes = doc.axes]
    /\ UNCHANGED <<proc, disk, mode, swapVars>>

\* lines 258-264, setAxisName_ of the item at the row
SetAxisName(index, value) ==
    /\ mode = "axes"
    /\ index \in DOMAIN doc.axes
    /\ doc' = IF validateAxisName(doc.axes, value)
              THEN [doc EXCEPT !.axes[index].name = str(value)]
              ELSE doc
    /\ call' = [op |-> "name", refused |-> ~validateAxisName(doc.axes, value)]
    /\ UNCHANGED <<proc, disk, mode, swapVars>>

\* lines 269-274, setAxisTag_ of the item at the row
SetAxisTag(index, value) ==
    /\ mode = "axes"
    /\ index \in DOMAIN doc.axes
    /\ doc' = IF validateAxisTag(doc.axes, value)
              THEN [doc EXCEPT !.axes[index].tag = str(value)]
              ELSE doc
    /\ call' = [op |-> "tag", refused |-> ~validateAxisTag(doc.axes, value)]
    /\ UNCHANGED <<proc, disk, mode, swapVars>>

\* lines 281-305, setAxisMinimum_ and setAxisMaximum_: a discrete axis
\* becomes a continuous one
SetAxisMinimum(index) ==
    /\ mode = "axes"
    /\ index \in DOMAIN doc.axes
    /\ doc' = IF doc.axes[index].discrete
              THEN [doc EXCEPT !.axes = convertAxisTo(doc.axes, index, FALSE)]
              ELSE doc
    /\ call' = [op |-> "continuous", refused |-> FALSE]
    /\ UNCHANGED <<proc, disk, mode, swapVars>>

\* lines 315-319, setAxisDiscreteValues_: a continuous axis becomes a
\* discrete one
SetAxisDiscreteValues(index) ==
    /\ mode = "axes"
    /\ index \in DOMAIN doc.axes
    /\ doc' = IF ~doc.axes[index].discrete
              THEN [doc EXCEPT !.axes = convertAxisTo(doc.axes, index, TRUE)]
              ELSE doc
    /\ call' = [op |-> "discrete", refused |-> FALSE]
    /\ UNCHANGED <<proc, disk, mode, swapVars>>

NextAxes ==
    \/ \E value \in {0, 1}, selection \in SUBSET (0..(Len(doc.axes) - 1)) :
          AxisToolsCallback(value, selection)
    \/ \E value \in 0..(Len(preferredAxes) - 1) : AxisEditorToolsCallback(value)
    \/ \E index \in 1..MaxAxes, value \in AxisNameValues : SetAxisName(index, value)
    \/ \E index \in 1..MaxAxes, value \in AxisTagValues : SetAxisTag(index, value)
    \/ \E index \in 1..MaxAxes : SetAxisMinimum(index)
    \/ \E index \in 1..MaxAxes : SetAxisDiscreteValues(index)

SpecAxes == InitAxes /\ [][NextAxes]_vars

-----------------------------------------------------------------------------
(* The editor: the sources list and the instances list. A row of a list is *)
(* the dict wrapSourceDescriptor or wrapInstanceDescriptor makes; "object"  *)
(* refers to the descriptor, here by its name.                              *)

\* most descriptors of one kind in a document
MaxDescriptors == 2

\* a source descriptor and an instance descriptor: an instance has no layer name
sourceDescriptor(k) ==
    [name |-> "source" \o ToString(k), styleName |-> "Master" \o ToString(k), layerName |-> ""]

instanceDescriptor(k) ==
    [name |-> "instance" \o ToString(k), styleName |-> "Style" \o ToString(k),
     postScriptFontName |-> ""]

\* the lists of up to MaxDescriptors descriptors, none of them twice
descriptorLists(descriptors) ==
    {l \in UNION {[1..n -> descriptors] : n \in 0..MaxDescriptors} :
        \A i, j \in DOMAIN l : i # j => l[i] # l[j]}

SourceDescriptors == {sourceDescriptor(k) : k \in 1..MaxDescriptors}

InstanceDescriptors == {instanceDescriptor(k) : k \in 1..MaxDescriptors}

\* lines 1080-1094: the row of a source descriptor; reading layerName of a
\* descriptor that has none raises an AttributeError
wrapSourceDescriptor(d) ==
    IF "layerName" \notin DOMAIN d THEN Raised
    ELSE Returned([sourceStyleName |-> d.styleName, sourceLayerName |-> d.layerName,
                   object |-> d.name])

\* lines 1160-1172: the row of an instance descriptor
wrapInstanceDescriptor(d) ==
    IF "postScriptFontName" \notin DOMAIN d THEN Raised
    ELSE Returned([instanceStyleName |-> d.styleName,
                   instancePostscriptFontName |-> d.postScriptFontName,
                   object |-> d.name])

\* item.update(wrapped)
update(item, wrapped) ==
    [k \in DOMAIN item \cup DOMAIN wrapped |-> IF k \in DOMAIN wrapped THEN wrapped[k] ELSE item[k]]

\* the rows of the descriptors, when every one of them could be wrapped
sourceRows(descriptors) == [i \in DOMAIN descriptors |-> wrapSourceDescriptor(descriptors[i]).value]

instanceRows(descriptors) == [i \in DOMAIN descriptors |-> wrapInstanceDescriptor(descriptors[i]).value]

\* lines 1759-1764: the rows of the sources list after
\* designspaceEditorSourcesDidChanged, or the exception that leaves it
sourcesDidChanged(operator, rows) ==
    IF Len(operator.sources) = Len(rows)
    THEN Returned([i \in DOMAIN rows |-> update(rows[i], wrapSourceDescriptor(operator.sources[i]).value)])
    ELSE IF \E i \in DOMAIN operator.instances : wrapSourceDescriptor(operator.instances[i]).raised
    THEN Raised
    ELSE Returned(sourceRows(operator.instances))

\* lines 1786-1791: the rows of the instances list after
\* designspaceEditorInstancesDidChange
instancesDidChange(operator, rows) ==
    IF Len(operator.instances) = Len(rows)
    THEN Returned([i \in DOMAIN rows |-> update(rows[i], wrapInstanceDescriptor(operator.instances[i]).value)])
    ELSE IF \E i \in DOMAIN operator.instances : wrapInstanceDescriptor(operator.instances[i]).raised
    THEN Raised
    ELSE Returned(instanceRows(operator.instances))

\* lines 925-928: the lists of the window set from the document opened
InitLists ==
    /\ mode = "lists"
    /\ \E sources \in descriptorLists(SourceDescriptors),
          instances \in descriptorLists(InstanceDescriptors) :
          /\ doc = [sources |-> sources, instances |-> instances]
          /\ proc = [sources |-> sourceRows(sources), instances |-> instanceRows(instances)]
    /\ call = [op |-> "none", raised |-> FALSE, matched |-> TRUE]
    /\ disk = <<>>
    /\ font = <<>> /\ orig = <<>> /\ args = <<>>

\* a script changes operator.sources itself (the list of the document the
\* operator inherits), without addSource or removeSource
EditSources(sources) ==
    /\ mode = "lists"
    /\ sources # doc.sources
    /\ doc' = [doc EXCEPT !.sources = sources]
    /\ call' = [op |-> "edit", raised |-> FALSE, matched |-> TRUE]
    /\ UNCHANGED <<proc, disk, mode, swapVars>>

\* a script changes operator.instances itself
EditInstances(instances) ==
    /\ mode = "lists"
    /\ instances # doc.instances
    /\ doc' = [doc EXCEPT !.instances = instances]
    /\ call' = [op |-> "edit", raised |-> FALSE, matched |-> TRUE]
    /\ UNCHANGED <<proc, disk, mode, swapVars>>

\* lines 165-169 and 1758-1764: operator.sourcesChanged() and the handler of
\* its notification
SourcesDidChanged ==
    /\ mode = "lists"
    /\ \E r \in {sourcesDidChanged(doc, proc.sources)} :
          /\ proc' = IF r.raised THEN proc ELSE [proc EXCEPT !.sources = r.value]
          /\ call' = [op |-> "sourcesChanged", raised |-> r.raised,
                      matched |-> Len(doc.sources) = Len(proc.sources)]
    /\ UNCHANGED <<doc, disk, mode, swapVars>>

\* lines 172-176 and 1785-1791: operator.instancesChanged() and the handler
\* of its notification
InstancesDidChange ==
    /\ mode = "lists"
    /\ \E r \in {instancesDidChange(doc, proc.instances)} :
          /\ proc' = IF r.raised THEN proc ELSE [proc EXCEPT !.instances = r.value]
          /\ call' = [op |-> "instancesChanged", raised |-> r.raised,
                      matched |-> Len(doc.instances) = Len(proc.instances)]
    /\ UNCHANGED <<doc, disk, mode, swapVars>>

NextLists ==
    \/ \E sources \in descriptorLists(SourceDescriptors) : EditSources(sources)
    \/ \E instances \in descriptorLists(InstanceDescriptors) : EditInstances(instances)
    \/ SourcesDidChanged
    \/ InstancesDidChange

SpecLists == InitLists /\ [][NextLists]_vars

Init == InitSwap \/ InitProc \/ InitGen \/ InitInfo \/ InitCache \/ InitDrop \/ InitAxes \/ InitLists

Next == NextSwap \/ NextProc \/ NextGen \/ NextInfo \/ NextCache \/ NextDrop \/ NextAxes \/ NextLists

Spec == Init /\ [][Next]_vars

-----------------------------------------------------------------------------
(* Properties of makeInstance, getGlyphMutator and collectMastersForGlyph *)

Made == mode = "proc" /\ call.op = "make"

MadeWithRules == Made /\ call.doRules

\* the substitutions <<old, new>> of the rules that fire at the instance location
firingSubs ==
    UNION {{doc.rules[r].subs[s] : s \in DOMAIN doc.rules[r].subs} :
              r \in {q \in DOMAIN doc.rules :
                        evaluateRule(doc.rules[q], call.instance.location)}}

\* the returned glyph `name` has the shape and width interpolated for `from`
carries(name, from) ==
    /\ call.font.glyphs[name].contours = call.built.glyphs[from].contours
    /\ call.font.glyphs[name].width = call.built.glyphs[from].width

exchanged(old, new) ==
    (old \in DOMAIN call.font.glyphs /\ new \in DOMAIN call.font.glyphs) =>
        /\ carries(old, new)
        /\ carries(new, old)
        /\ call.font.glyphs[old].unicodes = call.built.glyphs[old].unicodes
        /\ call.font.glyphs[new].unicodes = call.built.glyphs[new].unicodes

\* C7: after makeInstance with doRules, for every substitution (old, new) of a
\* rule that fires at the instance location, both glyphs being in the output
\* font, the returned glyph old has the shape and width interpolated for new
\* and the returned glyph new those interpolated for old, and each name keeps
\* its unicodes, whatever rules and substitutions the document lists.
C7_RulesExchange ==
    MadeWithRules => \A sub \in firingSubs : exchanged(sub[1], sub[2])

\* C7 on the instances at whose location exactly one substitution fires
RulesExchangeOneSubstitution ==
    (MadeWithRules /\ Cardinality(firingSubs) = 1) =>
        \A sub \in firingSubs : exchanged(sub[1], sub[2])

RulesExchangeOneSubstitution_Witness ==
    /\ MadeWithRules /\ firingSubs = {<<nA, nB>>}
    /\ call.instance = instance(800, <<>>)
    /\ {nA, nB} \subseteq DOMAIN call.font.glyphs
    /\ call.built.glyphs[nA].width # call.built.glyphs[nB].width
    /\ carries(nA, nB) /\ carries(nB, nA)

\* the document has two masters, at 0 and at 1000, both hold glyph g with as
\* many contours, neither mutes it and no layer holds a brace location for it
TwoMasters(g) ==
    /\ Len(doc.sources) = 2
    /\ {doc.sources[i].location : i \in DOMAIN doc.sources} = {0, 1000}
    /\ \A i \in DOMAIN doc.sources :
          /\ g \in DOMAIN defaultLayer(doc.sources[i].font)
          /\ Len(defaultLayer(doc.sources[i].font)[g].contours)
                = Len(defaultLayer(doc.sources[1].font)[g].contours)
          /\ g \notin doc.sources[i].mutedGlyphNames
          /\ \A l \in DOMAIN doc.sources[i].font.layers :
                g \in DOMAIN doc.sources[i].font.layers[l]
                   => doc.sources[i].font.layers[l][g].loc = <<>>

masterWidth(g, location) ==
    defaultLayer(doc.sources[CHOOSE i \in DOMAIN doc.sources :
                                 doc.sources[i].location = location].font)[g].width

\* w0 + (t/1000)*(w1 - w0)
linearWidth(g, t) ==
    LET w0 == masterWidth(g, 0)[1]
        w1 == masterWidth(g, 1000)[1]
    IN  frac(1000 * w0 + t * (w1 - w0), 1000)

\* w is an integer at most one half away from q
nearest(w, q) == w[2] = 1 /\ 2 * abs(w[1] * q[2] - q[1]) <= q[2]

\* the glyphs of the instance made that the two-master setting covers: made
\* at the instance location, without rules
plainGlyphs ==
    {g \in DOMAIN call.font.glyphs : TwoMasters(g) /\ g \notin DOMAIN call.instance.glyphs}

ExtrapolatedWidth ==
    (Made /\ ~call.doRules /\ doc.sources = <<light, bold>>
          /\ call.instance.glyphs = <<>> /\ nA \in DOMAIN call.font.glyphs) =>
        /\ call.instance.location = 1500 => call.font.glyphs[nA].width = whole(700)
        /\ call.instance.location = 250 => call.font.glyphs[nA].width = whole(200)
        /\ call.instance.location = -200 => call.font.glyphs[nA].width = whole(20)

\* a mutator of master samples was returned, and its samples are aligned
GotMasterMutator ==
    /\ mode = "proc" /\ call.op = "get" /\ ~call.includeBraces /\ ~call.result.raised
    /\ aligned(call.result.value)

\* the sources that give a master sample of glyph g
holders(g) ==
    {i \in DOMAIN doc.sources :
        /\ g \in DOMAIN defaultLayer(proc.fonts[doc.sources[i].name])
        /\ g \notin doc.sources[i].mutedGlyphNames}

\* the mutator returned gives, at the location of source i, that source's glyph
returnsMaster(i) ==
    makeMutatorInstance(call.result.value, doc.sources[i].location)
        = masterItem(doc.sources[i], proc.fonts[doc.sources[i].name], call.glyphName,
                     call.decomposeComponents).glyph

\* C9: a glyph mutator built from master samples only gives, at the location
\* of any master, that master's own glyph, and at the default location the
\* glyph of the sample at the bias.
C9_MasterValueAtMaster ==
    GotMasterMutator => \A i \in holders(call.glyphName) : returnsMaster(i)

\* C9 for the masters whose location no other master sample of the glyph
\* shares; at the default location the glyph of a master placed there
C9_MasterValueAtUnsharedLocation ==
    GotMasterMutator =>
        /\ \A i \in holders(call.glyphName) :
              (\A j \in holders(call.glyphName) :
                   doc.sources[j].location = doc.sources[i].location => j = i)
                 => returnsMaster(i)
        /\ \E i \in holders(call.glyphName) :
              doc.sources[i].location = axisDefault /\ returnsMaster(i)

C9_Witness ==
    /\ GotMasterMutator
    /\ doc.sources = <<light, lightTwin, bold>> /\ call.glyphName = nA
    /\ holders(nA) = {1, 2, 3}
    /\ returnsMaster(3) /\ returnsMaster(2) /\ ~returnsMaster(1)

Collected == mode = "proc" /\ call.op = "collect" /\ ~call.result.raised

\* the master samples of the result that come from source i
samplesOf(i) ==
    {k \in DOMAIN call.result.value :
        /\ call.result.value[k].sourceInfo.sourceName = doc.sources[i].name
        /\ call.result.value[k].sourceInfo.layerName = "foreground"}

C10_MutedWitness ==
    /\ Collected
    /\ doc.sources = <<light, boldMuted>> /\ call.glyphName = nA
    /\ Cardinality(samplesOf(1)) = 1 /\ samplesOf(2) = {}

\* every condition the rule lists holds at the location, bounds included
withinAll(r, t) ==
    \A i \in DOMAIN r.conditions :
        r.conditions[i].minimum <= t /\ t <= r.conditions[i].maximum

\* the documents with one rule of one substitution (nA, nB), made into an
\* instance in which both glyphs are and differ
OneRuleMade ==
    /\ MadeWithRules
    /\ Len(doc.rules) = 1 /\ doc.rules[1].subs = <<<<nA, nB>>>>
    /\ {nA, nB} \subseteq DOMAIN call.built.glyphs
    /\ call.built.glyphs[nA].contours # call.built.glyphs[nB].contours

\* C11: a rule fires at a location iff the location is within the closed
\* interval [minimum, maximum] of every condition the rule lists; seen in
\* makeInstance, whose font has the two glyphs exchanged iff the rule fires.
C11_RuleFiresIffWithinAll ==
    OneRuleMade =>
        /\ evaluateRule(doc.rules[1], call.instance.location)
              <=> withinAll(doc.rules[1], call.instance.location)
        /\ (carries(nA, nB) /\ carries(nB, nA))
              <=> withinAll(doc.rules[1], call.instance.location)
        /\ call.font = call.built
              <=> ~withinAll(doc.rules[1], call.instance.location)

\* the upper bound of one condition is met exactly and the rule fires
C11_Witness ==
    /\ OneRuleMade
    /\ Len(doc.rules[1].conditions) = 2
    /\ call.instance.location = 1000
    /\ carries(nA, nB) /\ carries(nB, nA)

\* one of two conditions fails and the rule does not fire
C11_OneConditionFails ==
    /\ OneRuleMade
    /\ Len(doc.rules[1].conditions) = 2
    /\ call.instance.location = 250
    /\ call.font = call.built

\* the name rule r gives to a name
renamedBy(r, name) ==
    IF \E s \in DOMAIN doc.rules[r].subs : doc.rules[r].subs[s][1] = name
    THEN doc.rules[r].subs[CHOOSE s \in DOMAIN doc.rules[r].subs :
             /\ doc.rules[r].subs[s][1] = name
             /\ \A q \in 1..(s - 1) : doc.rules[r].subs[q][1] # name][2]
    ELSE name

\* the name the rules of the document give to a name at location t
RECURSIVE renamed(_, _, _)
renamed(name, t, r) ==
    IF r > Len(doc.rules) THEN name
    ELSE renamed(IF withinAll(doc.rules[r], t) THEN renamedBy(r, name) ELSE name, t, r + 1)

C12_FiringWitness ==
    /\ MadeWithRules
    /\ Len(doc.rules) = 2 /\ proc.glyphNames = <<nC, nA, nB>>
    /\ call.instance.location = 800
    /\ processRules(doc.rules, 800, proc.glyphNames) = <<nC, nC, nC>>

\* what getGlyphMutator gives makeInstance for glyph g
mutatorFor(g) == getGlyphMutator(doc.sources, proc.fonts, <<>>, g, FALSE, TRUE, FALSE)

buildFails(g) == mutatorFor(g).raised

\* the mutator is built, the glyph is not muted in the instance and the
\* evaluation fails
evaluationFails(g) ==
    /\ ~buildFails(g)
    /\ ~aligned(mutatorFor(g).value)
    /\ ~(g \in DOMAIN call.instance.glyphs /\ "mute" \in DOMAIN call.instance.glyphs[g])

\* problems has an entry about glyph g (the other entries are about masters)
reported(g) ==
    \E k \in DOMAIN proc.problems :
        /\ proc.problems[k][1] \in {"Could not make mutator for glyph"}
        /\ proc.problems[k][2] = g

\* C13: in makeInstance every glyph whose mutator cannot be built or cannot
\* be evaluated has an entry in problems and is skipped, and every other glyph
\* of the list is made.
C13_FailuresReported ==
    Made =>
        \A i \in DOMAIN proc.glyphNames :
            LET g == proc.glyphNames[i]
            IN  IF buildFails(g) THEN reported(g) /\ g \notin DOMAIN call.built.glyphs
                ELSE IF evaluationFails(g) THEN reported(g)
                ELSE g \in DOMAIN call.built.glyphs

\* C13 for the failures to build a mutator
BuildFailuresReported ==
    Made =>
        \A i \in DOMAIN proc.glyphNames :
            LET g == proc.glyphNames[i]
            IN  IF buildFails(g)
                THEN /\ g \notin DOMAIN call.built.glyphs
                     /\ \E k \in DOMAIN proc.problems :
                           proc.problems[k] = <<"Could not make mutator for glyph", g>>
                ELSE g \in DOMAIN call.built.glyphs

BuildFailuresReported_Witness ==
    /\ Made /\ doc.sources = <<lightNoC, bold>> /\ proc.glyphNames = <<nC, nA, nB>>
    /\ buildFails(nC) /\ reported(nC)
    /\ DOMAIN call.built.glyphs = {nA, nB}

\* the evaluation of b fails: nothing is reported, an empty glyph b is left
EvaluationFailureSilent ==
    /\ Made /\ doc.sources = <<light, boldShortB>>
    /\ evaluationFails(nB) /\ ~reported(nB)
    /\ nB \in DOMAIN call.built.glyphs /\ call.built.glyphs[nB].contours = <<>>

-----------------------------------------------------------------------------
(* generateUFO and the files already on disk *)

Generated == mode = "gen" /\ call.op = "generate"

\* the paths generateUFO got to: the paths of the instances, all of them when
\* no makeInstance raised
filedPaths == {doc.instances[i].path[1] : i \in {j \in DOMAIN doc.instances : doc.instances[j].path # <<>>}}

\* before the call a UFO was at the path whose version the requested one does
\* not exceed
notNewer(path) ==
    /\ call.before[path] # <<>>
    /\ proc.ufoVersion <= getUFOVersion(call.before, path)

hasProblem(kind, path) == \E k \in DOMAIN proc.problems : proc.problems[k] = <<kind, path>>

\* C14: when the requested version is lower than or equal to the version of
\* the UFO already at an instance's path, generateUFO leaves that UFO as it was
\* and appends a problem about it, and the instances after it are still
\* processed (every path without a UFO gets one)
C14_BlockedAndReported ==
    (Generated /\ ~call.raised) =>
        \A path \in filedPaths :
            /\ notNewer(path) =>
                   /\ disk[path] = call.before[path]
                   /\ hasProblem("Can't overwrite existing UFO", path)
            /\ call.before[path] = <<>> => disk[path] # <<>>

\* C14 without the report: no UFO that was on disk is ever written over, and
\* the paths without one are written
ExistingNeverOverwritten ==
    (Generated /\ ~call.raised) =>
        \A path \in filedPaths :
            /\ call.before[path] # <<>> => disk[path] = call.before[path]
            /\ call.before[path] = <<>> =>
                   /\ disk[path] # <<>>
                   /\ disk[path][1].formatVersion = proc.ufoVersion
                   /\ hasProblem("Generated", path)

ExistingNeverOverwritten_Witness ==
    /\ Generated /\ ~call.raised
    /\ call.before["p1"] # <<>> /\ call.before["p2"] = <<>>
    /\ {"p1", "p2"} \subseteq filedPaths
    /\ disk["p2"] # <<>>

\* a UFO of the requested version was at the path: nothing is written and
\* nothing is reported
EqualVersionSilent ==
    /\ Generated /\ ~call.raised
    /\ \E path \in filedPaths :
          /\ call.before[path] # <<>>
          /\ getUFOVersion(call.before, path) = proc.ufoVersion
          /\ ~hasProblem("Can't overwrite existing UFO", path)
          /\ ~hasProblem("Generated", path)

\* a UFO of a lower version was at the path: it is not replaced and nothing
\* is reported
OlderVersionKept ==
    /\ Generated /\ ~call.raised
    /\ \E path \in filedPaths :
          /\ call.before[path] # <<>>
          /\ getUFOVersion(call.before, path) < proc.ufoVersion
          /\ disk[path] = call.before[path]
          /\ ~hasProblem("Can't overwrite existing UFO", path)

-----------------------------------------------------------------------------
(* build and the failure of one instance *)

Built == mode = "gen" /\ call.op = "build"

\* the names of the glyphs of the document d
namesOf(d) == freshNames(d, newProcessor(proc.ufoVersion))

\* making this instance of document d fails with an exception that leaves
\* makeInstance
failing(d, inst) ==
    \E order \in orderings(namesOf(d)) :
        makeInstance(d, loadFonts(d, newProcessor(proc.ufoVersion), FALSE, order), inst, FALSE).raised

\* the instances of d that have a path, none was at that path, and that can be made
expected(d) == {j \in DOMAIN d.instances : /\ d.instances[j].path # <<>>
                                          /\ call.before[d.instances[j].path[1]] = <<>>
                                          /\ ~failing(d, d.instances[j])}

\* C15: after build, every instance of every document of the batch that can be
\* made is generated, whatever happened to the instances and documents before it
C15_OthersStillGenerated ==
    Built =>
        \A i \in DOMAIN call.todo :
            \A j \in expected(call.todo[i]) :
                disk[call.todo[i].instances[j].path[1]] # <<>>

\* C15 for the documents: a document after or before a failing one is
\* generated in full, and the results hold one entry per document that did
\* not fail
OtherDocumentsGenerated ==
    Built =>
        /\ \A i \in DOMAIN call.todo :
               call.todo[i] = plainDocument => disk["p3"] # <<>> /\ disk["p4"] # <<>>
        /\ Len(call.results) =
               Cardinality({i \in DOMAIN call.todo :
                               \A j \in DOMAIN call.todo[i].instances :
                                   \/ call.todo[i].instances[j].path = <<>>
                                   \/ ~failing(call.todo[i], call.todo[i].instances[j])})

OtherDocumentsGenerated_Witness ==
    /\ Built
    /\ Len(call.todo) = 2 /\ call.todo[2] = plainDocument
    /\ failing(call.todo[1], call.todo[1].instances[1])
    /\ call.results = <<"None">>
    /\ disk["p3"] # <<>>

\* the first instance of a document fails: the second one, which can be
\* made, is not generated
LaterInstanceLost ==
    /\ Built
    /\ failing(call.todo[1], call.todo[1].instances[1])
    /\ 2 \in expected(call.todo[1])
    /\ disk[call.todo[1].instances[2].path[1]] = <<>>

-----------------------------------------------------------------------------
(* The unicodes of the generated glyphs *)

\* the mutator makeInstance evaluates for glyph g of the instance
usedMutator(inst, g) ==
    IF g \in DOMAIN inst.glyphs /\ "masters" \in DOMAIN inst.glyphs[g]
    THEN mastersMutator(proc.fonts, inst.glyphs[g]["masters"], g)
    ELSE mutatorFor(g)

\* makeInstance gets to line 558 for glyph g of the instance
generatedGlyph(inst, g) ==
    /\ ~buildFails(g)
    /\ ~(g \in DOMAIN inst.glyphs /\ "mute" \in DOMAIN inst.glyphs[g])
    /\ ~usedMutator(inst, g).raised
    /\ aligned(usedMutator(inst, g).value)

\* the unicodes the instance lists for the glyph, else these of the glyph in
\* the neutral master
expectedUnicodes(inst, g) ==
    IF g \in DOMAIN inst.glyphs /\ "unicodes" \in DOMAIN inst.glyphs[g]
    THEN inst.glyphs[g]["unicodes"]
    ELSE defaultLayer(getNeutralFont(doc.sources, proc.fonts).value)[g].unicodes

\* the instances generateUFO saved
saved == {j \in DOMAIN doc.instances : /\ doc.instances[j].path # <<>>
                                       /\ call.before[doc.instances[j].path[1]] = <<>>
                                       /\ disk[doc.instances[j].path[1]] # <<>>}

savedFont(j) == disk[doc.instances[j].path[1]][1].font

\* C16: every glyph generated for an instance has the unicodes the instance
\* lists for that glyph when it lists some, else the unicodes of the glyph in
\* the neutral master (none when that glyph has none); so what one instance
\* lists for a glyph shows in no other glyph and in no other instance
C16_UnicodesOverrideElseNeutral ==
    Generated =>
        \A j \in saved :
            \A g \in {n \in DOMAIN savedFont(j).glyphs : generatedGlyph(doc.instances[j], n)} :
                savedFont(j).glyphs[g].unicodes = expectedUnicodes(doc.instances[j], g)

\* an instance listing unicodes for glyph a is saved and then an instance
\* listing none: a has the listed unicodes in the first and the neutral
\* master's in the second, and b has the neutral master's in both
C16_Witness ==
    /\ Generated /\ saved = {1, 2}
    /\ doc.rules # <<>> /\ call.processRules
    /\ generatedGlyph(doc.instances[1], nA) /\ generatedGlyph(doc.instances[2], nA)
    /\ "unicodes" \in DOMAIN doc.instances[1].glyphs[nA]
    /\ savedFont(1).glyphs[nA].unicodes = <<291, 292, 293>>
    /\ savedFont(2).glyphs[nA].unicodes = <<unicodeOf(nA)>>
    /\ savedFont(1).glyphs[nB].unicodes = <<unicodeOf(nB)>>

-----------------------------------------------------------------------------
(* The info of the font makeInstance returns *)

NamedMade == mode = "info" /\ call.op = "make" /\ ~call.raised

\* the info of the returned font has the attribute with this value
infoHas(a, v) == a \in DOMAIN call.info /\ call.info[a] = v

hasNames ==
    /\ infoHas("familyName", call.instance.familyName)
    /\ infoHas("styleName", call.instance.styleName)
    /\ infoHas("postScriptFontName", call.instance.postScriptFontName)

\* the call appended that the info could not be made
infoFailed ==
    \E k \in DOMAIN proc.problems :
        /\ k > Len(call.before.problems)
        /\ proc.problems[k] = <<"Could not make fontinfo for", call.instance.location>>

\* C17: when the instance asks for the info, the returned font has the
\* familyName, styleName and postScriptFontName of the instance descriptor
C17_ExplicitNames == (NamedMade /\ call.instance.info) => hasNames

\* C17 when the info mutator could be built and evaluated: the names are
\* the instance's own, no master's
ExplicitNamesOverInfo ==
    (NamedMade /\ call.instance.info /\ ~infoFailed) =>
        /\ hasNames
        /\ \A i \in DOMAIN doc.sources :
               ~isNone(doc.sources[i].font) =>
                   call.info["familyName"] # doc.sources[i].font.info["familyName"]

ExplicitNamesOverInfo_Witness ==
    /\ NamedMade /\ call.instance.info /\ ~infoFailed
    /\ call.instance.location = 250
    /\ hasNames /\ "ascender" \in DOMAIN call.info

\* a master could not be loaded: the info cannot be made, and the names of
\* the instance are not written either
InfoFailureLeavesNoNames ==
    /\ NamedMade /\ call.instance.info /\ infoFailed
    /\ "familyName" \notin DOMAIN call.info

-----------------------------------------------------------------------------
(* The verbatim copies from the flagged sources *)

\* the info attributes a copy writes for the UFO version of the processor
covered == copiedAttributes \cap fontInfoAttributes(proc.ufoVersion)

\* the returned font holds what the copies from source i cover
holdsCopiesOf(i) ==
    LET f == doc.sources[i].font
    IN  /\ doc.sources[i].copyInfo => \A a \in covered : infoHas(a, f.info[a])
        /\ doc.sources[i].copyLib =>
               \A key \in DOMAIN f.lib : key \in DOMAIN call.lib /\ call.lib[key] = f.lib[key]
        /\ doc.sources[i].copyFeatures => call.features = <<f.features>>

\* C18 as stated: for every flagged source, the returned font holds the
\* source's value in every field the copy covers
C18_CopiesHoldFlaggedValue ==
    NamedMade =>
        \A i \in DOMAIN doc.sources :
            holdsCopiesOf(i)

\* the last source of the document with that flag, 0 when there is none
lastFlagged(flag) ==
    LET with == {i \in DOMAIN doc.sources : doc.sources[i][flag]}
    IN  IF with = {} THEN 0 ELSE CHOOSE i \in with : \A j \in with : j <= i

\* the last source flagged copyLib whose lib has the key, 0 when there is none
lastWithKey(key) ==
    LET with == {i \in DOMAIN doc.sources :
                    doc.sources[i].copyLib /\ key \in DOMAIN doc.sources[i].font.lib}
    IN  IF with = {} THEN 0 ELSE CHOOSE i \in with : \A j \in with : j <= i

\* what the info mutator gives at the location of the instance
interpolatedAt(a) ==
    makeInfoInstance(getInfoMutator(doc.sources, proc.fonts, <<>>).value,
                     call.instance.location)[a]

\* C18: the copies are made after the info is interpolated: every info
\* attribute the copy covers has the value of the last source flagged
\* copyInfo, also where the info mutator wrote one; every lib key other than
\* designspace has the value of the last source flagged copyLib that has the
\* key; the features are these of the last source flagged copyFeatures
C18_CopiesHoldLastFlaggedValue ==
    NamedMade =>
        /\ lastFlagged("copyInfo") # 0 =>
               \A a \in covered :
                   infoHas(a, doc.sources[lastFlagged("copyInfo")].font.info[a])
        /\ \A key \in UNION {DOMAIN doc.sources[i].font.lib :
                                i \in {j \in DOMAIN doc.sources : doc.sources[j].copyLib}} :
               key # "designspace" =>
                   call.lib[key] = doc.sources[lastWithKey(key)].font.lib[key]
        /\ lastFlagged("copyFeatures") # 0 =>
               call.features = <<doc.sources[lastFlagged("copyFeatures")].font.features>>
        /\ call.lib["designspace"] = <<call.instance.location>>

\* the first master alone is flagged, the info is interpolated between the
\* masters, and versionMajor is the first master's, not the interpolated one
C18_Witness ==
    /\ NamedMade /\ call.instance.info /\ ~infoFailed
    /\ call.instance.location = 250
    /\ lastFlagged("copyInfo") = 1 /\ lastFlagged("copyLib") = 1
    /\ call.info["versionMajor"] = doc.sources[1].font.info["versionMajor"]
    /\ call.info["versionMajor"] # interpolatedAt("versionMajor")
    /\ call.info["ascender"] = interpolatedAt("ascender")

\* two masters are flagged: the values copied from the first are gone
EarlierCopyReplaced ==
    /\ NamedMade
    /\ doc.sources[1].copyInfo /\ doc.sources[2].copyInfo
    /\ call.info["copyright"] # doc.sources[1].font.info["copyright"]

\* the lib of the flagged master has a designspace entry: the returned font
\* has the location of the instance there
DesignspaceEntryReplaced ==
    /\ NamedMade
    /\ \E i \in DOMAIN doc.sources :
          /\ doc.sources[i].copyLib
          /\ "designspace" \in DOMAIN doc.sources[i].font.lib
          /\ call.lib["designspace"] # doc.sources[i].font.lib["designspace"]

-----------------------------------------------------------------------------
(* The mutator cache *)

GotCached == mode = "cache" /\ call.op = "get"

calledKey == cacheKey(call.glyphName, call.decomposeComponents, call.includeBraces)

\* the call found its key in the cache and was allowed to use it
cacheHit == call.fromCache /\ calledKey \in DOMAIN call.before

\* the mutator built from the masters as the document has them now
rebuilt ==
    getGlyphMutator(doc.sources, proc.fonts, <<>>, call.glyphName, call.decomposeComponents,
                    call.includeBraces, FALSE)

C19_RebuildWitness ==
    /\ GotCached /\ ~call.fromCache /\ calledKey \in DOMAIN call.before
    /\ proc.glyphMutators[calledKey] # call.before[calledKey]
    /\ \E k \in DOMAIN call.before : k # calledKey /\ proc.glyphMutators[k] = call.before[k]

\* the other includeBraces value is stored for the glyph and differs: the
\* call does not return it
C19_OtherKeyWitness ==
    /\ GotCached /\ call.fromCache /\ calledKey \notin DOMAIN call.before
    /\ \E k \in DOMAIN call.before :
          k[1] = call.glyphName /\ call.before[k] # call.result.value

\* C20: after loadFonts(reload=True) every mutator getGlyphMutator returns
\* was built after the reload
C20_NoMutatorFromBeforeReload ==
    (GotCached /\ call.reloaded /\ ~call.result.raised) => calledKey \in call.since

\* loadFonts(reload=True) leaves the stored mutators where they are
ReloadKeepsMutators ==
    (mode = "cache" /\ call.op = "load" /\ call.reloaded) =>
        proc.glyphMutators = call.before

\* a mutator stored before a reload is returned after it, although the
\* document gives another one now
StaleAfterReload ==
    /\ GotCached /\ call.reloaded /\ cacheHit
    /\ calledKey \notin call.since
    /\ ~rebuilt.raised /\ call.result.value # rebuilt.value

-----------------------------------------------------------------------------
(* swapGlyphNames and the glyph set of the font *)

\* the parking name of the first call
calledSwapName == Append(calledOld, swapNameExtension)

\* C22: after a swap of two glyphs the font holds, no glyph is left under the
\* parking name oldName + swapNameExtension, whether the call made the parking
\* glyph or found one, after one call and after a repeated one
C22_ParkingGlyphRemoved ==
    (SwappedOnce \/ SwappedTwice) => calledSwapName \notin DOMAIN font.glyphs

\* two different glyphs without the extension are swapped: their outlines
\* went through the parking glyph and it is gone
C22_Witness ==
    /\ SwappedOnce /\ calledOld # calledNew
    /\ ~HasExt(calledOld) /\ ~HasExt(calledNew)
    /\ font.glyphs[calledNew].contours = orig.glyphs[calledOld].contours
    /\ font.glyphs[calledOld].contours = orig.glyphs[calledNew].contours
    /\ calledSwapName \notin DOMAIN font.glyphs

\* C27: a swap neither adds nor deletes a glyph, and every glyph other than
\* the two swapped ones is as before apart from its remapped components
C27_GlyphSetKept ==
    SwappedOnce =>
        /\ DOMAIN font.glyphs = DOMAIN orig.glyphs
        /\ \A n \in DOMAIN orig.glyphs \ {calledOld, calledNew} :
               font.glyphs[n] = [orig.glyphs[n] EXCEPT
                                    !.components = exchangeAll(@, calledOld, calledNew)]

\* a glyph that is neither of the two swapped ones and whose name contains the
\* extension is gone after the call
BystanderDeleted ==
    /\ SwappedOnce
    /\ \E n \in DOMAIN orig.glyphs \ {calledOld, calledNew} :
          n # calledSwapName /\ n \notin DOMAIN font.glyphs

\* C27 on the fonts that hold no name with the swap extension
GlyphSetKeptExtensionFree ==
    (SwappedOnce /\ ExtensionFree(orig)) =>
        /\ DOMAIN font.glyphs = DOMAIN orig.glyphs
        /\ \A n \in DOMAIN orig.glyphs \ {calledOld, calledNew} :
               font.glyphs[n] = [orig.glyphs[n] EXCEPT
                                    !.components = exchangeAll(@, calledOld, calledNew)]

-----------------------------------------------------------------------------
(* The brace samples *)

\* the samples of the result that do not come from a master's foreground
braceSamples ==
    SelectSeq(call.result.value, LAMBDA item : item.sourceInfo.layerName # "foreground")

\* what _collectBraceGlyphs gives for the glyph of the call
bracesNow == collectBraceGlyphs(doc.sources, proc.fonts, call.glyphName)

\* C23: with includeBraces the brace samples of the glyph follow the master
\* samples unless the glyph is muted in the default source, whatever the other
\* sources mute
C23_BracesUnlessMutedInDefault ==
    (Collected /\ call.includeBraces) =>
        braceSamples = IF call.glyphName \in defaultSource(doc.sources).mutedGlyphNames
                       THEN <<>>
                       ELSE bracesNow.value

\* what the code decides on: the muted glyphs of the last source of the document
BracesUnlessMutedInLastSource ==
    (Collected /\ call.includeBraces) =>
        braceSamples = IF call.glyphName \in doc.sources[Len(doc.sources)].mutedGlyphNames
                       THEN <<>>
                       ELSE bracesNow.value

\* the default source does not mute the glyph and has a brace layer for it,
\* the last source mutes it: no brace sample is returned
BracesDroppedByLastSource ==
    /\ Collected /\ call.includeBraces
    /\ call.glyphName \notin defaultSource(doc.sources).mutedGlyphNames
    /\ call.glyphName \in doc.sources[Len(doc.sources)].mutedGlyphNames
    /\ bracesNow.value # <<>>
    /\ braceSamples = <<>>

Braced == mode = "proc" /\ call.op = "braces" /\ ~call.result.raised

\* the layers of the neutral font that hold the glyph with a location record
braceLayers ==
    LET f == getNeutralFont(doc.sources, proc.fonts).value
    IN  {i \in DOMAIN f.layerOrder :
            /\ call.glyphName \in DOMAIN f.layers[f.layerOrder[i]]
            /\ f.layers[f.layerOrder[i]][call.glyphName].loc # <<>>}

\* C24: _collectBraceGlyphs(g) returns one sample for each layer of the
\* neutral font that holds g with a location record, made of that layer's
\* glyph, and no sample for any other layer
C24_OneSamplePerBraceLayer ==
    Braced =>
        LET f == getNeutralFont(doc.sources, proc.fonts).value
        IN  /\ Len(call.result.value) = Cardinality(braceLayers)
            /\ \A k \in DOMAIN call.result.value :
                  \E i \in braceLayers :
                      /\ call.result.value[k].sourceInfo.layerName = f.layerOrder[i]
                      /\ call.result.value[k].glyph
                            = mathGlyph(f.layers[f.layerOrder[i]][call.glyphName])

\* C24 without the layers that lack the glyph: every layer that holds the
\* glyph with a location record gives one sample of its own glyph
BraceLayersSampled ==
    Braced =>
        LET f == getNeutralFont(doc.sources, proc.fonts).value
        IN  \A i \in braceLayers :
                Cardinality({k \in DOMAIN call.result.value :
                                /\ call.result.value[k].sourceInfo.layerName = f.layerOrder[i]
                                /\ call.result.value[k].glyph
                                      = mathGlyph(f.layers[f.layerOrder[i]][call.glyphName])}) = 1

\* a layer without the glyph follows the brace layer: the brace glyph is
\* returned a second time, under the name of the layer that lacks it
StaleLayerGlyphSampled ==
    /\ Braced
    /\ \E k \in DOMAIN call.result.value :
          LET f == getNeutralFont(doc.sources, proc.fonts).value
          IN  call.glyphName \notin DOMAIN f.layers[call.result.value[k].sourceInfo.layerName]

-----------------------------------------------------------------------------
(* generateUFO and the paths it saves to *)

\* nothing was at the path, or a UFO of a lower version than the requested one
writable(path) ==
    \/ call.before[path] = <<>>
    \/ getUFOVersion(call.before, path) < proc.ufoVersion

\* C25: every instance with a path at which nothing was, or a UFO of an older
\* version than the requested one, is saved there at the requested version
\* with a Generated entry in problems; nothing is saved for an instance
\* without a path
C25_SavedUnlessBlocked ==
    (Generated /\ ~call.raised) =>
        /\ \A path \in filedPaths :
               writable(path) =>
                   /\ disk[path] # <<>>
                   /\ disk[path] # call.before[path]
                   /\ disk[path][1].formatVersion = proc.ufoVersion
                   /\ hasProblem("Generated", path)
        /\ \A path \in Paths \ filedPaths : disk[path] = call.before[path]

\* C25 for the paths at which nothing was, and for the instances without a path
AbsentPathsSaved ==
    (Generated /\ ~call.raised) =>
        /\ \A path \in filedPaths :
               call.before[path] = <<>> =>
                   /\ disk[path] # <<>>
                   /\ disk[path][1].formatVersion = proc.ufoVersion
                   /\ hasProblem("Generated", path)
        /\ \A path \in Paths \ filedPaths : disk[path] = call.before[path]

\* the first instance has no path and the second is saved
AbsentPathsSaved_Witness ==
    /\ Generated /\ ~call.raised
    /\ doc.instances[1].path = <<>> /\ doc.instances[2].path = <<"p1">>
    /\ call.before["p1"] = <<>> /\ disk["p1"] # <<>>
    /\ disk["p2"] = call.before["p2"]

\* a UFO 2 is at the path and UFO 3 is requested: the instance is not saved
\* and there is no entry about it
OlderVersionNotSaved ==
    /\ Generated /\ ~call.raised
    /\ \E path \in filedPaths :
          /\ call.before[path] # <<>>
          /\ getUFOVersion(call.before, path) = 2 /\ proc.ufoVersion = 3
          /\ disk[path] = call.before[path]
          /\ ~hasProblem("Generated", path)

\* ---- the glyph names after loadFonts ----

\* the names of the glyphs of the fonts the processor holds
loadedNames == UNION {DOMAIN defaultLayer(proc.fonts[n]) : n \in {m \in DOMAIN proc.fonts : ~isNone(proc.fonts[m])}}

\* the names in the list glyphNames
listedNames == {proc.glyphNames[k] : k \in DOMAIN proc.glyphNames}

\* C26: after any sequence of loadFonts calls on a document whose source
\* files exist, glyphNames holds exactly the names of the glyphs of all the
\* fonts in self.fonts and every source name maps to a loaded font
C26_GlyphNamesAreUnion ==
    (mode = "cache" /\ proc.fontsLoaded) =>
        /\ listedNames = loadedNames
        /\ \A i \in DOMAIN doc.sources :
              /\ doc.sources[i].name \in DOMAIN proc.fonts
              /\ ~isNone(proc.fonts[doc.sources[i].name])

\* what holds of lines 398-413: every source name maps to a loaded font, and
\* after the first load glyphNames is the union of the fonts' glyph names
FirstLoadNamesAreUnion ==
    (mode = "cache" /\ proc.fontsLoaded) =>
        /\ \A i \in DOMAIN doc.sources :
              /\ doc.sources[i].name \in DOMAIN proc.fonts
              /\ ~isNone(proc.fonts[doc.sources[i].name])
        /\ (call.op = "load" /\ ~call.reloaded) => listedNames = loadedNames

FirstLoadNamesAreUnion_Witness ==
    /\ mode = "cache" /\ call.op = "load" /\ ~call.reloaded
    /\ listedNames = loadedNames /\ listedNames # {}

\* loadFonts(reload=True) on loaded fonts leaves glyphNames empty
ReloadEmptiesGlyphNames ==
    /\ mode = "cache" /\ call.op = "load" /\ call.reloaded
    /\ proc.glyphNames = <<>> /\ loadedNames # {}


\* ---- the glyphs an instance mutes ----

\* the glyphs whose data in the instance made sets mute
mutedGlyphs == {g \in DOMAIN call.instance.glyphs : get(call.instance.glyphs[g], "mute", FALSE)}

\* the instance with the mute flags taken out of its glyph data
unmuted(inst) ==
    [inst EXCEPT !.glyphs = [g \in DOMAIN inst.glyphs |->
                                [k \in DOMAIN inst.glyphs[g] \ {"mute"} |-> inst.glyphs[g][k]]]]

\* the glyph under the name is absent or as newGlyph left it
atMostEmpty(glyphs, g) == g \in DOMAIN glyphs => glyphs[g] = EmptyGlyph

\* the glyphs the same processor generates for the instance without its mutes
unmutedGlyphs(glyphs) == makeInstance(doc, proc, unmuted(call.instance), FALSE).built.glyphs

\* the glyphs other than the muted ones are those of the instance without mutes
othersAsUnmuted(glyphs, plain) ==
    /\ DOMAIN glyphs \ mutedGlyphs = DOMAIN plain \ mutedGlyphs
    /\ \A h \in DOMAIN glyphs \ mutedGlyphs : glyphs[h] = plain[h]

\* a rule that holds at the instance's location names the glyph
ruledAt(g) ==
    \E i \in DOMAIN proc.glyphNames :
        /\ proc.glyphNames[i] # processRules(doc.rules, call.instance.location, proc.glyphNames)[i]
        /\ g \in {proc.glyphNames[i],
                  processRules(doc.rules, call.instance.location, proc.glyphNames)[i]}

\* C28 as stated: the font makeInstance returns holds at most an empty glyph
\* under the name of a glyph the instance mutes
C28_MutedGlyphNotGenerated ==
    Made => \A g \in mutedGlyphs : atMostEmpty(call.font.glyphs, g)

\* C28 amended: the glyph loop evaluates no mutator for a glyph the instance
\* mutes and leaves at most an empty glyph under its name, the glyphs it makes
\* under the other names are those of the instance without the mute, and the
\* font returned holds at most an empty glyph under the muted name unless the
\* rules then exchange that name
C28_MutedGlyphSkippedInLoop ==
    (Made /\ mutedGlyphs # {}) =>
        /\ \A g \in mutedGlyphs :
              /\ atMostEmpty(call.built.glyphs, g)
              /\ ~(call.doRules /\ ruledAt(g)) => atMostEmpty(call.font.glyphs, g)
        /\ othersAsUnmuted(call.built.glyphs, unmutedGlyphs(call.built.glyphs))

\* b is muted in the instance and every master has an outline for it: the
\* loop leaves the empty glyph b and generates a
C28_Witness ==
    /\ Made /\ ~call.raised /\ mutedGlyphs = {nB}
    /\ ~buildFails(nB) /\ aligned(mutatorFor(nB).value)
    /\ nB \in DOMAIN call.built.glyphs /\ call.built.glyphs[nB] = EmptyGlyph
    /\ nB \in DOMAIN unmutedGlyphs(call.built.glyphs)
    /\ unmutedGlyphs(call.built.glyphs)[nB] # EmptyGlyph
    /\ nA \in DOMAIN call.built.glyphs /\ call.built.glyphs[nA] # EmptyGlyph

\* a rule exchanges a and the muted b: the font returned holds the outline
\* generated for a under the name b
MutedNameTakenByRule ==
    /\ Made /\ ~call.raised /\ call.doRules /\ mutedGlyphs = {nB} /\ ruledAt(nB)
    /\ nB \in DOMAIN call.font.glyphs /\ call.font.glyphs[nB].contours # <<>>
    /\ call.built.glyphs[nB] = EmptyGlyph


-----------------------------------------------------------------------------
(* Rows dropped inside a list *)

Dropped == mode = "drop" /\ call.op = "drop" /\ ~call.isProposal

\* the rows of the list in the order given, those at the indexes only
draggedRows == rowsAt(call.before, call.data)

\* the rows that were not dragged, in the order they had
keptRows == rowsAt(call.before, (0..(Len(call.before) - 1)) \ call.data)

\* where the first dragged row lands: the drop row less the dragged rows above it
landing == call.rowIndex - Cardinality({index \in call.data : index < call.rowIndex})

\* the rows of items that are in the set, in the order items has them
restricted(items, rows) == SelectSeq(items, LAMBDA r : r \in rows)

rowSet(items) == {items[i] : i \in DOMAIN items}

\* C30: a drop that is not a proposal gives a permutation of the list in
\* which the dragged rows stand together in their original order from the drop
\* row less the number of dragged rows above it, and the other rows keep their
\* order; a proposal leaves the list as it was
C30_DropReorders ==
    /\ Dropped =>
          /\ Len(proc) = Len(call.before)
          /\ rowSet(proc) = rowSet(call.before)
          /\ Cardinality(rowSet(proc)) = Len(proc)
          /\ SubSeq(proc, landing + 1, landing + Len(draggedRows)) = draggedRows
          /\ restricted(proc, rowSet(keptRows)) = keptRows
    /\ (mode = "drop" /\ call.op = "drop" /\ call.isProposal) => proc = call.before

\* rows 0 and 2 of three dropped before row 2: they land at rows 1 and 2
C30_Witness ==
    /\ Dropped
    /\ call.before = startRows(3) /\ call.data = {0, 2} /\ call.rowIndex = 2
    /\ proc = <<"row2", "row1", "row3">>


-----------------------------------------------------------------------------
(* The axes of the document in the editor *)

\* no two axes have the same name
namesUnique(axes) == \A i, j \in DOMAIN axes : i # j => axes[i].name # axes[j].name

\* no two axes have the same tag
tagsUnique(axes) == \A i, j \in DOMAIN axes : i # j => axes[i].tag # axes[j].tag

\* C21: after any sequence of axis operations of the editor (add with the +
\* button, add a preferred axis, rename, retag, remove, convert) the names of
\* the axes are unique and so are the tags
C21_AxisNamesAndTagsUnique ==
    mode = "axes" => namesUnique(doc.axes) /\ tagsUnique(doc.axes)

\* what the validation of lines 1608-1618 keeps: the names and tags other
\* than the text of None are unique
TypedNamesAndTagsUnique ==
    mode = "axes" =>
        /\ namesUnique(SelectSeq(doc.axes, LAMBDA a : a.name # "None"))
        /\ tagsUnique(SelectSeq(doc.axes, LAMBDA a : a.tag # "None"))

\* the axis weight stands in the document and adding the preferred axis
\* weight was refused
TypedNamesAndTagsUnique_Witness ==
    /\ mode = "axes" /\ call.op = "add" /\ call.refused
    /\ Len(doc.axes) = 1 /\ doc.axes[1].name = "weight"

\* the name cells of two axes were emptied: both axes are called None
ClearedNamesDuplicate ==
    /\ mode = "axes" /\ call.op = "name" /\ ~call.refused
    /\ Len(doc.axes) = 2
    /\ doc.axes[1].name = "None" /\ doc.axes[2].name = "None"


-----------------------------------------------------------------------------
(* The sources list and the instances list after a notification *)

SourcesNotified == mode = "lists" /\ call.op = "sourcesChanged"

InstancesNotified == mode = "lists" /\ call.op = "instancesChanged"

\* C29: after the handler of a sources-changed notification the sources list
\* has one row per source descriptor of the operator, in the document's order,
\* and after the handler of an instances-changed notification the instances
\* list has one row per instance descriptor, whether the counts matched or not
C29_ListsShowDescriptors ==
    /\ SourcesNotified => proc.sources = sourceRows(doc.sources)
    /\ InstancesNotified => proc.instances = instanceRows(doc.instances)

\* C29 for the instances list, and for the sources list when it had as many
\* rows as the operator has sources
ListsShownWhenCountsMatch ==
    /\ (SourcesNotified /\ call.matched) => proc.sources = sourceRows(doc.sources)
    /\ InstancesNotified => ~call.raised /\ proc.instances = instanceRows(doc.instances)

\* the instances list had one row for two descriptors and shows both
ListsShownWhenCountsMatch_Witness ==
    /\ InstancesNotified /\ ~call.matched
    /\ Len(doc.instances) = 2 /\ proc.instances = instanceRows(doc.instances)

\* the sources list had another count of rows than the operator has
\* sources: the handler wraps the instance descriptors, which raises, or sets
\* no row at all, and the list does not show the sources
SourcesListNotRefreshed ==
    /\ SourcesNotified /\ ~call.matched
    /\ doc.sources # <<>>
    /\ proc.sources # sourceRows(doc.sources)

====
